---- MODULE Spec2Model ----
(***************************************************************************)
(* Memory lifecycle engine of as-me: confidence decay, strengthening,      *)
(* tier promotion/eviction, the tiered JSON store and retrieval.           *)
(*                                                                         *)
(* Numbers.  Confidence is a Python float in [0,1]; here it is an integer  *)
(* in units of 1/CONF_ONE.  Time is an integer count of half hours.        *)
(* math.pow(0.5, x) and math.exp(-0.693 x) are evaluated in fixed point:   *)
(* exact at every quarter of a half-life, linear in between.               *)
(***************************************************************************)
EXTENDS Integers, Sequences, FiniteSets, TLC

VARIABLES
    now,        \* the wall clock (datetime.now()), in half hours
    steps,      \* operations performed so far in this run
    lastOp,     \* the last operation performed
    batch,      \* DecayEngine / StrengtheningEngine: the in-memory atoms
    to_keep,    \* process_batch: indices of batch retained by the last call
    to_remove,  \* process_batch: indices of batch to delete by the last call
    lastCall,   \* the last strengthening call: the batch before it, the indices
                \* of the atoms it triggered and its pattern_matched
    store,      \* memories/<tier>.json: tier -> the list of atoms persisted
    injected,   \* the memories the last SessionStartHook.handle returned
    removed,    \* history: the atoms the last operation deleted, as it saw them
    origin,     \* history: per id, the confidence at the last trigger and
                \* the decay passes since
    procs,      \* concurrent invocations: per process, its position in the
                \* store method it executes and that method's locals
    torn,       \* the tier files opened for writing and not yet written
    hist,       \* history of the concurrent invocations
    query,      \* the arguments of the last retrieve_relevant and the store
                \* it read
    cache,      \* MemoryCache: the cached atoms and the indices over them
    pid_file,   \* analysis/.pid: the pid written in it, NoPidFile when absent
    queue,      \* analysis/queue.json: the items of the analysis queue
    runners     \* the analyze-background processes: position and locals

engineVars == <<batch, to_keep, to_remove, lastCall>>
lifeVars == <<injected, removed, origin, query>>
analysisVars == <<pid_file, queue, runners>>
procVars == <<procs, torn, hist, cache, analysisVars>>
vars == <<now, steps, lastOp, batch, to_keep, to_remove, lastCall,
          store, injected, removed, origin, procs, torn, hist, query, cache,
          pid_file, queue, runners>>

----------------------------------------------------------------------------
\* Units

CONF_ONE == 10000
HOUR == 2
DAY == 48

\* memory/models.py MemoryTier, in declaration order
TierOrder == <<"short_term", "working", "long_term">>
MemoryTier == {"short_term", "working", "long_term"}
TierIndex(t) == CHOOSE i \in 1..3 : TierOrder[i] = t

Min(a, b) == IF a <= b THEN a ELSE b
Max(a, b) == IF a >= b THEN a ELSE b

RECURSIVE IntPow(_, _)
IntPow(b, n) == IF n = 0 THEN 1 ELSE b * IntPow(b, n - 1)

----------------------------------------------------------------------------
\* memory/decay.py

DEFAULT_HALF_LIFE_DAYS == 30

\* TIER_DECAY_FACTORS as the divisor of the half-life: 1/1.0, 1/0.5, 1/0.25
TierHalfLifeMult(t) ==
    CASE t = "short_term" -> 1
      [] t = "working" -> 2
      [] t = "long_term" -> 4

MIN_CONFIDENCE_THRESHOLDS(t) ==
    CASE t = "short_term" -> 3000
      [] t = "working" -> 2000
      [] t = "long_term" -> 1000

\* 0.5^(j/4) for j = 0..4, in units of 1/CONF_ONE
Pow05Quarter == <<10000, 8409, 7071, 5946, 5000>>

\* math.pow(0.5, e / d) in units of 1/CONF_ONE, for e >= 0 and d > 0
Pow05(e, d) ==
    LET n == e \div d
        r == e % d
        q == (4 * r) \div d
        f == (4 * r) % d
        hi == Pow05Quarter[q + 1]
        lo == Pow05Quarter[q + 2]
        frac == hi - ((hi - lo) * f) \div d
    IN  IF n > 20 THEN 0 ELSE frac \div IntPow(2, n)

\* calculate_decay as it would be without the days_elapsed <= 0 return: a
\* negative exponent makes math.pow(0.5, .) exceed 1
calculate_decay_unguarded(memory, reference_time) ==
    LET elapsed == reference_time - memory.last_triggered_at
        adjusted_half_life ==
            DEFAULT_HALF_LIFE_DAYS * DAY * TierHalfLifeMult(memory.tier)
    IN  IF elapsed < 0
        THEN Max(0, Min(CONF_ONE,
                 (memory.confidence * CONF_ONE)
                     \div Pow05(0 - elapsed, adjusted_half_life)))
        ELSE Max(0, Min(CONF_ONE,
                 (memory.confidence * Pow05(elapsed, adjusted_half_life))
                     \div CONF_ONE))

\* MemoryDecay.calculate_decay: decays the STORED confidence over the time
\* since last_triggered_at
calculate_decay(memory, reference_time) ==
    LET elapsed == reference_time - memory.last_triggered_at
        adjusted_half_life ==
            DEFAULT_HALF_LIFE_DAYS * DAY * TierHalfLifeMult(memory.tier)
        new_confidence ==
            (memory.confidence * Pow05(elapsed, adjusted_half_life)) \div CONF_ONE
    IN  IF elapsed <= 0
        THEN memory.confidence
        ELSE Max(0, Min(CONF_ONE, new_confidence))

\* MemoryDecay.apply_decay: overwrites memory.confidence in place
apply_decay(memory, reference_time) ==
    [memory EXCEPT !.confidence = calculate_decay(memory, reference_time)]

\* MemoryDecay.should_remove: compares the (already overwritten) confidence
should_remove(memory) ==
    memory.confidence < MIN_CONFIDENCE_THRESHOLDS(memory.tier)

\* a batch pass that also returns the removed atoms among the retained ones
process_batch_keep_all(memories, reference_time) ==
    LET decayed == [i \in 1..Len(memories) |->
                        apply_decay(memories[i], reference_time)]
        idx == [i \in 1..Len(memories) |-> i]
        IsGone(i) == should_remove(decayed[i])
    IN  [memories |-> decayed,
         to_keep |-> idx,
         to_remove |-> SelectSeq(idx, IsGone)]

\* MemoryDecay.process_batch: the atoms after apply_decay, and the indices of
\* the retained and of the removed ones, in input order
process_batch(memories, reference_time) ==
    LET decayed == [i \in 1..Len(memories) |->
                        apply_decay(memories[i], reference_time)]
        idx == [i \in 1..Len(memories) |-> i]
        IsGone(i) == should_remove(decayed[i])
        IsKept(i) == ~should_remove(decayed[i])
    IN  [memories |-> decayed,
         to_keep |-> SelectSeq(idx, IsKept),
         to_remove |-> SelectSeq(idx, IsGone)]

----------------------------------------------------------------------------
\* memory/strengthening.py

BASE_TRIGGER_BOOST == 500
PATTERN_MATCH_BOOST == 1000
MAX_BOOST_PER_TRIGGER == 1500
MIN_TRIGGER_INTERVAL_HOURS == 1

\* TIER_UPGRADE_THRESHOLDS: (confidence, trigger_count)
TIER_UPGRADE_THRESHOLDS(t) ==
    CASE t = "short_term" -> <<6000, 3>>
      [] t = "working" -> <<8000, 7>>

\* _check_tier_upgrade as it would be with two independent ifs on memory.tier
\* instead of if / elif on current_tier: the second check sees the new tier
check_tier_upgrade_twice(memory) ==
    LET first ==
            IF /\ memory.tier = "short_term"
               /\ memory.confidence >= TIER_UPGRADE_THRESHOLDS("short_term")[1]
               /\ memory.trigger_count >= TIER_UPGRADE_THRESHOLDS("short_term")[2]
            THEN [memory EXCEPT !.tier = "working"]
            ELSE memory
    IN  IF /\ first.tier = "working"
           /\ first.confidence >= TIER_UPGRADE_THRESHOLDS("working")[1]
           /\ first.trigger_count >= TIER_UPGRADE_THRESHOLDS("working")[2]
        THEN [first EXCEPT !.tier = "long_term"]
        ELSE first

\* MemoryStrengthening._check_tier_upgrade
check_tier_upgrade(memory) ==
    CASE memory.tier = "long_term" -> memory
      [] memory.tier = "short_term" ->
            IF /\ memory.confidence >= TIER_UPGRADE_THRESHOLDS("short_term")[1]
               /\ memory.trigger_count >= TIER_UPGRADE_THRESHOLDS("short_term")[2]
            THEN [memory EXCEPT !.tier = "working"]
            ELSE memory
      [] memory.tier = "working" ->
            IF /\ memory.confidence >= TIER_UPGRADE_THRESHOLDS("working")[1]
               /\ memory.trigger_count >= TIER_UPGRADE_THRESHOLDS("working")[2]
            THEN [memory EXCEPT !.tier = "long_term"]
            ELSE memory

\* a trigger whose boost does not diminish with trigger_count
trigger_boost_undiminished(memory, pattern_matched) ==
    Min(BASE_TRIGGER_BOOST + (IF pattern_matched THEN PATTERN_MATCH_BOOST ELSE 0),
        MAX_BOOST_PER_TRIGGER)

\* the boost of one trigger: (base [+ pattern]) * 1/(1 + 0.1 * trigger_count),
\* capped at max_boost
trigger_boost(memory, pattern_matched) ==
    LET boost == BASE_TRIGGER_BOOST
                    + (IF pattern_matched THEN PATTERN_MATCH_BOOST ELSE 0)
        diminished == (boost * 10) \div (10 + memory.trigger_count)
    IN  Min(diminished, MAX_BOOST_PER_TRIGGER)

\* a trigger that forgets min(1.0, ...): the boost added without the cap
boosted_confidence_uncapped(memory, pattern_matched) ==
    memory.confidence + trigger_boost(memory, pattern_matched)

\* the confidence after a trigger that is not debounced
boosted_confidence(memory, pattern_matched) ==
    Min(CONF_ONE, memory.confidence + trigger_boost(memory, pattern_matched))

\* a trigger with no minimum interval between two triggers
trigger_without_debounce(memory, pattern_matched, trigger_time) ==
    check_tier_upgrade(
        [memory EXCEPT !.confidence = boosted_confidence(memory, pattern_matched),
                       !.trigger_count = @ + 1,
                       !.last_triggered_at = trigger_time])

\* a trigger whose debounced call leaves last_triggered_at alone: the window
\* is counted from the last trigger that was not debounced
trigger_fixed_window(memory, pattern_matched, trigger_time) ==
    IF trigger_time - memory.last_triggered_at < MIN_TRIGGER_INTERVAL_HOURS * HOUR
    THEN memory
    ELSE check_tier_upgrade(
            [memory EXCEPT !.confidence = boosted_confidence(memory, pattern_matched),
                           !.trigger_count = @ + 1,
                           !.last_triggered_at = trigger_time])

\* MemoryStrengthening.trigger
trigger(memory, pattern_matched, trigger_time) ==
    IF trigger_time - memory.last_triggered_at < MIN_TRIGGER_INTERVAL_HOURS * HOUR
    THEN [memory EXCEPT !.last_triggered_at = trigger_time]
    ELSE check_tier_upgrade(
            [memory EXCEPT !.confidence = boosted_confidence(memory, pattern_matched),
                           !.trigger_count = @ + 1,
                           !.last_triggered_at = trigger_time])

\* tag_similarity >= similarity_threshold for common_tags / all_tags, the
\* threshold in hundredths
similar_enough(memory_tags, other_tags, similarity_threshold) ==
    LET common_tags == memory_tags \cap other_tags
        all_tags == memory_tags \cup other_tags
    IN  /\ all_tags /= {}
        /\ Cardinality(common_tags) * 100
                >= similarity_threshold * Cardinality(all_tags)

\* a matching that does not compare the types
find_pattern_matches_any_type(memory, all_memories, similarity_threshold) ==
    LET Matches(other) ==
            /\ other.id /= memory.id
            /\ memory.tags /= {} /\ other.tags /= {}
            /\ similar_enough(memory.tags, other.tags, similarity_threshold)
    IN  SelectSeq(all_memories, Matches)

\* MemoryStrengthening.find_pattern_matches
find_pattern_matches(memory, all_memories, similarity_threshold) ==
    LET Matches(other) ==
            /\ other.id /= memory.id
            /\ other.type = memory.type
            /\ memory.tags /= {} /\ other.tags /= {}
            /\ similar_enough(memory.tags, other.tags, similarity_threshold)
    IN  SelectSeq(all_memories, Matches)

\* MemoryStrengthening.strengthen_pattern
strengthen_pattern(memories, trigger_time) ==
    [i \in 1..Len(memories) |-> trigger(memories[i], TRUE, trigger_time)]

----------------------------------------------------------------------------
\* memory/confidence.py

\* exp(-0.693 * j/4) for j = 0..4, in units of 1/CONF_ONE
ExpQuarter == <<10000, 8409, 7072, 5947, 5001>>

\* x * exp(-0.693)^n
RECURSIVE ExpWhole(_, _)
ExpWhole(x, n) ==
    IF n = 0 THEN x ELSE ExpWhole((x * ExpQuarter[5]) \div CONF_ONE, n - 1)

\* math.exp(-0.693 * days / half_life_days) in units of 1/CONF_ONE
ExpDecay(days, half_life_days) ==
    LET n == days \div half_life_days
        r == days % half_life_days
        q == (4 * r) \div half_life_days
        f == (4 * r) % half_life_days
        hi == ExpQuarter[q + 1]
        lo == ExpQuarter[q + 2]
        frac == hi - ((hi - lo) * f) \div half_life_days
    IN  IF n > 20 THEN 0 ELSE ExpWhole(frac, n)

\* timedelta.days: whole days, rounded down
WholeDays(elapsed) == elapsed \div DAY

\* apply_time_decay: whole days since the last trigger, no tier factor
apply_time_decay(memory, half_life_days, at) ==
    LET days_since_trigger == WholeDays(at - memory.last_triggered_at)
    IN  (memory.confidence * ExpDecay(days_since_trigger, half_life_days))
            \div CONF_ONE

----------------------------------------------------------------------------
\* memory/store.py: the store is one JSON list per tier

None == [id |-> 0]

\* QueryOptions defaults
QUERY_LIMIT == 100

QueryOptions ==
    [limit |-> QUERY_LIMIT, offset |-> 0, min_confidence |-> 0,
     tier |-> "any", memory_type |-> "any",
     sort_by |-> "confidence", sort_desc |-> TRUE]

SeqIds(recs) == {recs[i].id : i \in 1..Len(recs)}

\* the index of the first record with this id, 0 when there is none
FirstIndex(recs, id) ==
    IF id \in SeqIds(recs)
    THEN CHOOSE i \in 1..Len(recs) :
            /\ recs[i].id = id
            /\ \A j \in 1..(i - 1) : recs[j].id /= id
    ELSE 0

\* MemoryStore.save on the loaded list of memory.tier: replace the first
\* record with the id, else append
upsert(recs, memory) ==
    IF FirstIndex(recs, memory.id) /= 0
    THEN [recs EXCEPT ![FirstIndex(recs, memory.id)] = memory]
    ELSE Append(recs, memory)

\* MemoryStore.save: reads and writes the file of memory.tier only
save(st, memory) == [st EXCEPT ![memory.tier] = upsert(@, memory)]

\* MemoryStore.get_by_id: the first hit, tiers in declaration order
get_by_id(st, id) ==
    LET hits == {i \in 1..3 : id \in SeqIds(st[TierOrder[i]])}
        first == CHOOSE i \in hits : \A j \in hits : i <= j
        recs == st[TierOrder[first]]
    IN  IF hits = {} THEN None ELSE recs[FirstIndex(recs, id)]

\* MemoryStore._remove_from_tier: drops every record with the id
without(recs, id) ==
    LET Other(m) == m.id /= id
    IN  SelectSeq(recs, Other)

remove_from_tier(st, id, tier) == [st EXCEPT ![tier] = without(@, id)]

\* MemoryStore.delete: removes from the first tier that holds the id
delete(st, id) ==
    LET hits == {i \in 1..3 : id \in SeqIds(st[TierOrder[i]])}
        first == CHOOSE i \in hits : \A j \in hits : i <= j
    IN  IF hits = {} THEN st ELSE remove_from_tier(st, id, TierOrder[first])

\* an update that saves the atom when its id is unknown
update_or_insert(st, memory) ==
    LET existing == get_by_id(st, memory.id)
    IN  IF existing = None THEN save(st, memory)
        ELSE IF existing.tier /= memory.tier
             THEN save(remove_from_tier(st, existing.id, existing.tier), memory)
             ELSE save(st, memory)

\* MemoryStore.update: st unchanged when the id is unknown (MEMORY_NOT_FOUND)
update(st, memory) ==
    LET existing == get_by_id(st, memory.id)
    IN  IF existing = None THEN st
        ELSE IF existing.tier /= memory.tier
             THEN save(remove_from_tier(st, existing.id, existing.tier), memory)
             ELSE save(st, memory)

\* MemoryStore.trigger: no debounce, no boost
store_trigger(st, id, at) ==
    LET memory == get_by_id(st, id)
    IN  IF memory = None THEN st
        ELSE save(st, [memory EXCEPT !.last_triggered_at = at,
                                     !.trigger_count = @ + 1])

\* MemoryAtom.model_validate accepts the record: the Field constraints
\* confidence ge=0, le=1 and trigger_count ge=0
model_validate_ok(m) ==
    /\ m.confidence >= 0
    /\ m.confidence <= CONF_ONE
    /\ m.trigger_count >= 0

\* the inner loop of MemoryStore.save_batch for one tier: existing_ids is
\* computed once, before the loop
RECURSIVE batch_upsert(_, _, _)
batch_upsert(existing, existing_ids, tier_memories) ==
    IF tier_memories = <<>> THEN existing
    ELSE CHOOSE result \in
            {batch_upsert(next, existing_ids, Tail(tier_memories)) :
                next \in {IF Head(tier_memories).id \in existing_ids
                          THEN [existing EXCEPT
                                  ![FirstIndex(existing, Head(tier_memories).id)]
                                        = Head(tier_memories)]
                          ELSE Append(existing, Head(tier_memories))}} : TRUE

\* MemoryStore.save_batch: group by tier, then one load and one write per tier
save_batch(st, memories) ==
    [t \in MemoryTier |->
        LET InTier(m) == m.tier = t
            tier_memories == SelectSeq(memories, InTier)
        IN  IF tier_memories = <<>> THEN st[t]
            ELSE batch_upsert(st[t], SeqIds(st[t]), tier_memories)]

\* what MemoryStore.update returns or raises
update_result(st, memory) ==
    IF get_by_id(st, memory.id) = None THEN "MEMORY_NOT_FOUND" ELSE memory

\* what MemoryStore.delete returns
delete_result(st, id) == \E t \in MemoryTier : id \in SeqIds(st[t])

\* what MemoryStore.trigger returns
trigger_result(st, id, at) ==
    IF get_by_id(st, id) = None THEN None
    ELSE [get_by_id(st, id) EXCEPT !.last_triggered_at = at,
                                   !.trigger_count = @ + 1]

SortKey(m, sort_by) ==
    CASE sort_by = "created_at" -> m.created_at
      [] sort_by = "last_triggered_at" -> m.last_triggered_at
      [] OTHER -> m.confidence

\* list.sort(key=..., reverse=desc), stable in both directions: key is the
\* sequence of the elements' keys; pos[i] is the place of element i, behind
\* the elements with a key ahead of its own and the earlier ones with the
\* same key
StableSort(s, key, desc) ==
    LET n == Len(s)
        keys == key \o <<>>
        Ahead(j, i) == IF desc THEN keys[j] > keys[i] ELSE keys[j] < keys[i]
        pos == [i \in 1..n |-> 1 + Cardinality({j \in 1..n :
                        Ahead(j, i) \/ (keys[j] = keys[i] /\ j < i)})] \o <<>>
    IN  [p \in 1..n |-> s[CHOOSE i \in 1..n : pos[i] = p]]

\* s[start:end] of Python, start and end counted from 0
Slice(s, start, end) == SubSeq(s, start + 1, Min(end, Len(s)))

\* MemoryStore.get_all: filter, sort, then cut to [offset, offset + limit)
get_all(st, options) ==
    LET Wanted(m) ==
            /\ ~(m.confidence < options.min_confidence)
            /\ (options.memory_type = "any" \/ m.type = options.memory_type)
        Load(t) == IF options.tier = "any" \/ options.tier = t
                   THEN SelectSeq(st[t], Wanted) ELSE <<>>
        all_memories == Load("short_term") \o Load("working") \o Load("long_term")
        key == [i \in 1..Len(all_memories) |->
                    SortKey(all_memories[i], options.sort_by)]
    IN  Slice(StableSort(all_memories, key, options.sort_desc),
              options.offset, options.offset + options.limit)

\* MemoryStore.get_all as its caller sees it: model_validate runs on every
\* record of the tiers to load, before any filter, inside no try block
get_all_result(st, options) ==
    LET Loaded(t) == IF options.tier = "any" \/ options.tier = t
                     THEN st[t] ELSE <<>>
        loaded == Loaded("short_term") \o Loaded("working") \o Loaded("long_term")
    IN  IF \E k \in 1..Len(loaded) : ~model_validate_ok(loaded[k])
        THEN [error |-> "ValidationError", memories |-> <<>>]
        ELSE [error |-> "none", memories |-> get_all(st, options)]

----------------------------------------------------------------------------
\* memory/retriever.py: scores are in units of 1/SCORE_ONE

SCORE_ONE == 100000000

\* TIER_WEIGHTS, in tenths
TIER_WEIGHTS(t) ==
    CASE t = "long_term" -> 10
      [] t = "working" -> 8
      [] t = "short_term" -> 5
      [] OTHER -> 5

\* TYPE_WEIGHTS, in hundredths
TYPE_WEIGHTS(t) ==
    CASE t = "identity" -> 100
      [] t = "value" -> 95
      [] t = "thinking" -> 90
      [] t = "preference" -> 80
      [] t = "communication" -> 70
      [] OTHER -> 50

\* MemoryRetriever._context_relevance: matched keywords / keywords, in units
\* of 1/SCORE_ONE; the context is the set of words it contains
context_relevance(memory, context) ==
    LET memory_words == memory.content \cup memory.tags
        matches == Cardinality(memory_words \cap context)
    IN  IF memory_words = {} THEN 0
        ELSE Min(SCORE_ONE, (matches * SCORE_ONE) \div Cardinality(memory_words))

\* MemoryRetriever._calculate_relevance; context = {} is "no context"
calculate_relevance(memory, context, at) ==
    LET decayed_confidence ==
            apply_time_decay(memory, DEFAULT_HALF_LIFE_DAYS, at)
        trigger_bonus == Min(2000000, memory.trigger_count * 200000)
        score == decayed_confidence * TIER_WEIGHTS(memory.tier)
                    * TYPE_WEIGHTS(memory.type) + trigger_bonus
        final == IF context /= {}
                 THEN score * 7 + (context_relevance(memory, context) \div 10) * 3
                 ELSE score * 10
    IN  Min(SCORE_ONE, final)

\* the candidates of a retrieval that passes no min_confidence to get_all
retrieve_candidates_unfiltered(st, limit, min_confidence) ==
    get_all(st, [QueryOptions EXCEPT !.limit = limit * 3])

\* the candidates of retrieve_relevant: get_all of the limit * 3 most
\* confident atoms with confidence >= min_confidence
retrieve_candidates(st, limit, min_confidence) ==
    get_all(st, [QueryOptions EXCEPT !.min_confidence = min_confidence,
                                     !.limit = limit * 3])

\* MemoryRetriever.retrieve_relevant, the list returned: the atoms as loaded,
\* each with its score
retrieve_relevant(st, limit, min_confidence, context, at) ==
    LET memories == retrieve_candidates(st, limit, min_confidence)
        all == [i \in 1..Len(memories) |->
                    [memory |-> memories[i],
                     relevance_score |->
                        calculate_relevance(memories[i], context, at)]]
        Positive(x) == x.relevance_score > 0
        scored == SelectSeq(all, Positive)
        key == [i \in 1..Len(scored) |-> scored[i].relevance_score]
    IN  Slice(StableSort(scored, key, TRUE), 0, limit)

\* MemoryRetriever._confidence_indicator, the length of the string
confidence_indicator(confidence) ==
    IF confidence >= 8000 THEN 6
    ELSE IF confidence >= 6000 THEN 7
    ELSE IF confidence >= 4000 THEN 7
    ELSE 0

\* the lines format_for_injection writes, each with its kind and its length
\* in characters: "<user-profile>", the introduction, "", "## <type name>",
\* "- <content> <indicator>", "- ...", "</user-profile>"
Line(kind, type, length) == [kind |-> kind, type |-> type, len |-> length]

PROFILE_OPEN == 14
PROFILE_INTRO == 14
PROFILE_CLOSE == 15
SECTION_HEADER == 7
ELLIPSIS == 5

\* the order of the sections
SectionOrder == <<"identity", "value", "thinking", "preference", "communication">>

\* the loop over type_memories from entry k on: out is [lines, current_length]
RECURSIVE format_entries(_, _, _, _)
format_entries(out, type_memories, k, max_length) ==
    IF k > Len(type_memories) THEN out
    ELSE LET memory == type_memories[k]
             memory_line == 2 + memory.content_len + 1
                                + confidence_indicator(memory.confidence)
         IN  IF out.current_length + memory_line + 1 > max_length
             THEN [out EXCEPT !.lines = Append(@, Line("ellipsis", memory.type, ELLIPSIS))]
             ELSE format_entries(
                    [lines |-> Append(out.lines, Line("entry", memory.type, memory_line)),
                     current_length |-> out.current_length + memory_line + 1],
                    type_memories, k + 1, max_length)

\* the loop over the types from SectionOrder[s] on
RECURSIVE format_sections(_, _, _, _)
format_sections(out, memories, s, max_length) ==
    IF s > Len(SectionOrder) THEN out
    ELSE LET mem_type == SectionOrder[s]
             OfType(item) == item.memory.type = mem_type
             items == SelectSeq(memories, OfType)
             type_memories == [k \in 1..Len(items) |-> items[k].memory]
         IN  IF type_memories = <<>>
             THEN format_sections(out, memories, s + 1, max_length)
             ELSE IF out.current_length + SECTION_HEADER + 2 > max_length
             THEN out
             ELSE LET opened == [lines |-> Append(out.lines,
                                        Line("section", mem_type, SECTION_HEADER)),
                                 current_length |-> out.current_length + SECTION_HEADER + 1]
                      filled == format_entries(opened, type_memories, 1, max_length)
                  IN  format_sections(
                        [filled EXCEPT !.lines = Append(@, Line("blank", mem_type, 0))],
                        memories, s + 1, max_length)

\* MemoryRetriever.format_for_injection: the lines of the text returned, no
\* line at all for the empty string
format_for_injection(memories, max_length) ==
    IF memories = <<>> THEN <<>>
    ELSE LET lines == << Line("open", "none", PROFILE_OPEN),
                         Line("intro", "none", PROFILE_INTRO),
                         Line("blank", "none", 0) >>
             out == format_sections(
                        [lines |-> lines,
                         current_length |-> PROFILE_OPEN + PROFILE_INTRO],
                        memories, 1, max_length)
         IN  Append(out.lines, Line("close", "none", PROFILE_CLOSE))

\* len("\n".join(lines))
RECURSIVE SumLen(_, _)
SumLen(lines, k) == IF k = 0 THEN 0 ELSE lines[k].len + SumLen(lines, k - 1)

JoinedLength(lines) ==
    IF lines = <<>> THEN 0 ELSE SumLen(lines, Len(lines)) + Len(lines) - 1

\* store.trigger(id) for every id of a list, in order
RECURSIVE trigger_all(_, _, _)
trigger_all(st, ids, at) ==
    IF ids = <<>> THEN st
    ELSE CHOOSE result \in
            {trigger_all(next, Tail(ids), at) :
                next \in {store_trigger(st, Head(ids), at)}} : TRUE

ResultIds(result) == [i \in 1..Len(result) |-> result[i].memory.id]

----------------------------------------------------------------------------
\* memory/tier_manager.py

\* TierManager.UPGRADE_THRESHOLDS
UPGRADE_THRESHOLDS(t) ==
    CASE t = "short_term" ->
            [min_triggers |-> 2, min_confidence |-> 5000, min_days |-> 3,
             next_tier |-> "working"]
      [] t = "working" ->
            [min_triggers |-> 5, min_confidence |-> 7000, min_days |-> 30,
             next_tier |-> "long_term"]

\* TierManager.DELETE_THRESHOLDS
DELETE_THRESHOLDS(t) ==
    CASE t = "short_term" -> [max_confidence |-> 3000, inactive_days |-> 3]
      [] t = "working" -> [max_confidence |-> 2000, inactive_days |-> 14]
      [] t = "long_term" -> [max_confidence |-> 1000, inactive_days |-> 90]

\* TierManager.check_upgrade: the target tier, "none" for no upgrade
check_upgrade(memory, at) ==
    IF memory.tier = "long_term" THEN "none"
    ELSE LET threshold == UPGRADE_THRESHOLDS(memory.tier)
         IN  IF WholeDays(at - memory.created_at) < threshold.min_days
                THEN "none"
             ELSE IF memory.trigger_count < threshold.min_triggers
                THEN "none"
             ELSE IF apply_time_decay(memory, DEFAULT_HALF_LIFE_DAYS, at)
                        < threshold.min_confidence
                THEN "none"
             ELSE threshold.next_tier

\* TierManager.check_delete
check_delete(memory, at) ==
    LET threshold == DELETE_THRESHOLDS(memory.tier)
    IN  IF apply_time_decay(memory, DEFAULT_HALF_LIFE_DAYS, at)
                >= threshold.max_confidence
            THEN FALSE
        ELSE IF WholeDays(at - memory.last_triggered_at) < threshold.inactive_days
            THEN FALSE
        ELSE TRUE

\* TierManager.upgrade: memory.tier = target_tier; store.update(memory)
upgrade(st, memory, target_tier) ==
    update(st, [memory EXCEPT !.tier = target_tier])

\* the body of the loop of TierManager._process_tier for one atom; acc is the
\* store and the transitions so far
process_memory(acc, memory, tier, at) ==
    LET target_tier == check_upgrade(memory, at)
    IN  IF check_delete(memory, at)
        THEN [store |-> delete(acc.store, memory.id),
              transitions |-> Append(acc.transitions,
                    [memory_id |-> memory.id, from_tier |-> tier,
                     to_tier |-> "none"])]
        ELSE IF target_tier /= "none"
        THEN [store |-> upgrade(acc.store, memory, target_tier),
              transitions |-> Append(acc.transitions,
                    [memory_id |-> memory.id, from_tier |-> tier,
                     to_tier |-> target_tier])]
        ELSE acc

\* the loop over tier_memories[lo..hi] in list order: the second half runs on
\* the result of the first half
RECURSIVE process_range(_, _, _, _, _, _)
process_range(acc, tier_memories, tier, at, lo, hi) ==
    IF lo > hi THEN acc
    ELSE IF lo = hi THEN process_memory(acc, tier_memories[lo], tier, at)
    ELSE CHOOSE result \in
            {process_range(half, tier_memories, tier, at, (lo + hi) \div 2 + 1, hi) :
                half \in {process_range(acc, tier_memories, tier, at,
                                        lo, (lo + hi) \div 2)}} : TRUE

\* the loop of TierManager._process_tier over tier_memories
process_memories(acc, tier_memories, tier, at) ==
    process_range(acc, tier_memories, tier, at, 1, Len(tier_memories))

\* TierManager._process_tier: get_all() with the default options, then the
\* atoms of this tier
process_tier(acc, tier, at) ==
    LET memories == get_all(acc.store, QueryOptions)
        InTier(m) == m.tier = tier
    IN  process_memories(acc, SelectSeq(memories, InTier), tier, at)

\* TierManager.process_all: the tiers in declaration order
process_all(st, at) ==
    process_tier(
        process_tier(
            process_tier([store |-> st, transitions |-> <<>>],
                         "short_term", at),
            "working", at),
        "long_term", at)

----------------------------------------------------------------------------
\* hooks/session_start.py

\* SessionStartHook defaults
HOOK_MAX_MEMORIES == 10
HOOK_MIN_CONFIDENCE == 3000
HOOK_MAX_CONTEXT_LENGTH == 2000

\* store.save of memories[lo..hi] in list order, first half then second half
RECURSIVE save_range(_, _, _, _)
save_range(st, memories, lo, hi) ==
    IF lo > hi THEN st
    ELSE IF lo = hi THEN save(st, memories[lo])
    ELSE CHOOSE result \in
            {save_range(half, memories, (lo + hi) \div 2 + 1, hi) :
                half \in {save_range(st, memories, lo, (lo + hi) \div 2)}} : TRUE

save_each(st, memories) == save_range(st, memories, 1, Len(memories))

\* store.delete of memories[lo..hi] in list order
RECURSIVE delete_range(_, _, _, _)
delete_range(st, memories, lo, hi) ==
    IF lo > hi THEN st
    ELSE IF lo = hi THEN delete(st, memories[lo].id)
    ELSE CHOOSE result \in
            {delete_range(half, memories, (lo + hi) \div 2 + 1, hi) :
                half \in {delete_range(st, memories, lo, (lo + hi) \div 2)}} : TRUE

delete_each(st, memories) == delete_range(st, memories, 1, Len(memories))

\* SessionStartHook._apply_memory_decay: get_all() with the default options,
\* process_batch, save the retained atoms, delete the others
apply_memory_decay(st, at) ==
    LET r == process_batch(get_all(st, QueryOptions), at)
        kept == [i \in 1..Len(r.to_keep) |-> r.memories[r.to_keep[i]]]
        gone == [i \in 1..Len(r.to_remove) |-> r.memories[r.to_remove[i]]]
    IN  delete_each(save_each(st, kept), gone)

\* SessionStartHook.handle: the store afterwards and the memories injected
handle(st, at, injection_enabled, decay_enabled, max_memories) ==
    IF ~injection_enabled THEN [store |-> st, memories |-> <<>>]
    ELSE LET decayed == IF decay_enabled THEN apply_memory_decay(st, at) ELSE st
             memories == retrieve_relevant(decayed, max_memories,
                                           HOOK_MIN_CONFIDENCE, {}, at)
             retrieved == trigger_all(decayed, ResultIds(memories), at)
         IN  IF memories = <<>>
             THEN [store |-> retrieved, memories |-> <<>>]
             ELSE \* _strengthen_triggered_memories: store.trigger once more
                  [store |-> trigger_all(retrieved, ResultIds(memories), at),
                   memories |-> memories]

\* HookOutput(additional_context, error): additional_context as the lines of
\* the text, error "none" for None
HookOutput(additional_context, error) ==
    [additional_context |-> additional_context, error |-> error]

\* the stages of handle in which an exception can be raised
HandleStages == {"decay", "archiving", "retrieval", "strengthening", "formatting"}

\* the scored memories as format_for_injection reads them: content is one
\* word of ten characters for each word of the atom
Formatted(memories) ==
    [i \in 1..Len(memories) |->
        [memory |-> [id |-> memories[i].memory.id,
                     type |-> memories[i].memory.type,
                     confidence |-> memories[i].memory.confidence,
                     content_len |-> 11 * Cardinality(memories[i].memory.content) - 1],
         relevance_score |-> memories[i].relevance_score]]

\* a handle without the try block: an exception of any stage reaches the
\* caller
handle_unguarded(st, at, injection_enabled, decay_enabled, max_memories, fault) ==
    IF ~injection_enabled \/ fault = "none"
    THEN [store |-> st, memories |-> <<>>, output |-> HookOutput(<<>>, "none"),
          raised |-> "none", propagated |-> FALSE]
    ELSE [store |-> st, memories |-> <<>>, output |-> HookOutput(<<>>, "none"),
          raised |-> fault, propagated |-> TRUE]

\* what handle returns to its caller
Returned(after, memories, output, raised) ==
    [store |-> after, memories |-> memories, output |-> output,
     raised |-> raised, propagated |-> FALSE]

\* the body of handle after the injection_enabled check, with an exception
\* raised at the start of the stage fault ("none": no exception)
handle_enabled(st, at, decay_enabled, max_memories, fault) ==
    LET \* except Exception as e: return HookOutput(error=str(e))
        Caught(after) == Returned(after, <<>>, HookOutput(<<>>, fault), fault)
    IN  IF decay_enabled /\ fault = "decay" THEN Caught(st)
        ELSE LET decayed == IF decay_enabled THEN apply_memory_decay(st, at) ELSE st
                 \* _archive_cold_data: except Exception: pass
                 archived == IF fault = "archiving" THEN "archiving" ELSE "none"
             IN  IF fault = "retrieval" THEN Caught(decayed)
                 ELSE LET memories == retrieve_relevant(decayed, max_memories,
                                                        HOOK_MIN_CONFIDENCE, {}, at)
                          retrieved == trigger_all(decayed, ResultIds(memories), at)
                      IN  IF memories = <<>>
                          THEN Returned(retrieved, <<>>, HookOutput(<<>>, "none"), archived)
                          ELSE IF fault = "strengthening" THEN Caught(retrieved)
                          ELSE LET strengthened ==
                                    trigger_all(retrieved, ResultIds(memories), at)
                               IN  IF fault = "formatting" THEN Caught(strengthened)
                                   ELSE Returned(strengthened, memories,
                                            HookOutput(format_for_injection(
                                                Formatted(memories),
                                                HOOK_MAX_CONTEXT_LENGTH), "none"),
                                            archived)

\* a handle that does not read the injection_enabled setting
handle_ignoring_profile(st, at, injection_enabled, decay_enabled, max_memories, fault) ==
    handle_enabled(st, at, decay_enabled, max_memories, fault)

\* SessionStartHook.handle: the store afterwards, the memories retrieved, the
\* HookOutput returned, the stage whose exception was raised and whether it
\* reached the caller
handle_guarded(st, at, injection_enabled, decay_enabled, max_memories, fault) ==
    IF ~injection_enabled
    THEN Returned(st, <<>>, HookOutput(<<>>, "none"), "none")
    ELSE handle_enabled(st, at, decay_enabled, max_memories, fault)

----------------------------------------------------------------------------
\* storage/cache.py

MemoryTypes == {"identity", "value", "thinking", "preference", "communication"}
Tags == {"typescript", "python"}

\* MemoryCache(): memories is the dict, keys its keys in insertion order; an
\* index that has no entry for a key holds the empty set for it
EmptyCache ==
    [keys |-> <<>>, memories |-> <<>>,
     memory_by_type |-> [t \in MemoryTypes |-> {}],
     memory_by_tier |-> [t \in {"short_term", "working", "long_term"} |-> {}],
     memory_by_tag |-> [g \in Tags |-> {}],
     memory_by_confidence |-> <<>>,
     dirty_memories |-> {}]

\* the atom cached under an id: memories is a list parallel to keys
Cached(c, id) ==
    c.memories[CHOOSE k \in 1..Len(c.keys) : c.keys[k] = id]

CachedIds(c) == {c.keys[k] : k \in 1..Len(c.keys)}

\* self.memories[memory.id] = memory: a new key goes last, a known key keeps
\* its place
dict_set(c, memory) ==
    IF memory.id \in CachedIds(c)
    THEN [c EXCEPT !.memories =
            [k \in 1..Len(c.keys) |->
                IF c.keys[k] = memory.id THEN memory ELSE c.memories[k]]]
    ELSE [c EXCEPT !.keys = Append(@, memory.id),
                   !.memories = Append(@, memory)]

\* MemoryCache._update_confidence_order: sorted(keys, by confidence, reverse)
update_confidence_order(c) ==
    [c EXCEPT !.memory_by_confidence =
        StableSort(c.keys,
                   [k \in 1..Len(c.keys) |-> c.memories[k].confidence], TRUE)]

\* MemoryCache.add_memory
add_memory(c, memory) ==
    LET stored == dict_set(c, memory)
    IN  update_confidence_order(
            [stored EXCEPT
                !.dirty_memories = @ \cup {memory.id},
                !.memory_by_type[memory.type] = @ \cup {memory.id},
                !.memory_by_tier[memory.tier] = @ \cup {memory.id},
                !.memory_by_tag = [g \in Tags |->
                    IF g \in memory.tags THEN @[g] \cup {memory.id} ELSE @[g]]])

\* MemoryCache.remove_memory
remove_memory(c, memory_id) ==
    IF memory_id \notin CachedIds(c) THEN c
    ELSE LET memory == Cached(c, memory_id)
             Others(k) == c.keys[k] /= memory_id
             kept == SelectSeq([k \in 1..Len(c.keys) |-> k], Others)
             NotIt(id) == id /= memory_id
         IN  [c EXCEPT
                !.keys = [k \in 1..Len(kept) |-> c.keys[kept[k]]],
                !.memories = [k \in 1..Len(kept) |-> c.memories[kept[k]]],
                !.memory_by_type[memory.type] = @ \ {memory_id},
                !.memory_by_tier[memory.tier] = @ \ {memory_id},
                !.memory_by_tag = [g \in Tags |->
                    IF g \in memory.tags THEN @[g] \ {memory_id} ELSE @[g]],
                !.memory_by_confidence = SelectSeq(@, NotIt),
                !.dirty_memories = @ \ {memory_id}]

----------------------------------------------------------------------------
\* analysis/queue.py, analysis/scheduler.py: the analysis queue
\*
\* The queue is the list data["items"] of queue.json; an item is reduced to
\* its session_id, status and retry_count. Every method of AnalysisQueue
\* loads the file, changes the list and saves it.

AnalysisStatus == {"pending", "processing", "completed", "failed", "skipped"}

\* AnalysisQueueItem(session_id=...): status PENDING, retry_count 0
AnalysisQueueItem(session_id) ==
    [session_id |-> session_id, status |-> "pending", retry_count |-> 0]

\* auto_config.get("retry_limit", 3)
RETRY_LIMIT == 3

\* auto_config.get("max_sessions_per_run", 5)
MAX_SESSIONS_PER_RUN == 5

\* the session ids of the items of the queue
QueueIds(q) == {q[k].session_id : k \in 1..Len(q)}

\* AnalysisQueue.add: the item replaces the one queued under its session_id,
\* or is appended
queue_add(q, item) ==
    IF item.session_id \in QueueIds(q)
    THEN [k \in 1..Len(q) |->
            IF q[k].session_id = item.session_id THEN item ELSE q[k]] \o <<>>
    ELSE Append(q, item)

RECURSIVE FirstPending(_, _, _)
FirstPending(q, k, limit) ==
    IF k > Len(q) \/ limit = 0 THEN <<>>
    ELSE IF q[k].status = "pending"
         THEN <<q[k].session_id>> \o FirstPending(q, k + 1, limit - 1)
         ELSE FirstPending(q, k + 1, limit)

\* AnalysisQueue.get_pending: the first `limit` items whose status is PENDING
get_pending(q, limit) == FirstPending(q, 1, limit)

\* the None of get_by_session_id
NoItem == [session_id |-> "none", status |-> "none", retry_count |-> 0]

\* AnalysisQueue.get_by_session_id: the item, or None
get_by_session_id(q, session_id) ==
    IF session_id \in QueueIds(q)
    THEN q[CHOOSE k \in 1..Len(q) : q[k].session_id = session_id]
    ELSE NoItem

\* AnalysisQueue.update_status
update_status(q, session_id, status) ==
    [k \in 1..Len(q) |->
        IF q[k].session_id = session_id
        THEN [q[k] EXCEPT !.status = status]
        ELSE q[k]] \o <<>>

\* AnalysisQueue.mark_for_retry: retry_count += 1, status = PENDING
mark_for_retry(q, session_id) ==
    [k \in 1..Len(q) |->
        IF q[k].session_id = session_id
        THEN [q[k] EXCEPT !.status = "pending", !.retry_count = @ + 1]
        ELSE q[k]] \o <<>>

RECURSIVE ScanAll(_, _, _)
ScanAll(q, queue_ids, ids) ==
    IF ids = <<>> THEN q
    ELSE IF Head(ids) \in queue_ids
         THEN ScanAll(q, queue_ids, Tail(ids))
         ELSE ScanAll(queue_add(q, AnalysisQueueItem(Head(ids))),
                      queue_ids, Tail(ids))

\* AnalysisScheduler._scan_new_sessions: the recent sessions that were not
\* in the queue when the scan began are added to it. The analyzed ids are
\* ids of the queue (a log entry is written for a queued item only, and no
\* caller removes an item); the scan is taken as one step.
scan_new_sessions(q, recent_sessions) ==
    ScanAll(q, QueueIds(q), recent_sessions)

\* AnalysisScheduler._handle_analysis_error, the check before mark_for_retry
can_retry(current_item) ==
    current_item /= NoItem /\ current_item.retry_count < RETRY_LIMIT

----------------------------------------------------------------------------
\* analysis/runner.py: the PID file

NoPidFile == 0

\* BackgroundRunner.get_running_pid: the pid in the file, None without a file
get_running_pid(file) == file

\* BackgroundRunner._is_process_running: os.kill(pid, 0) succeeds
is_process_running(pid, alive) == pid \in alive

\* BackgroundRunner.is_analysis_running: the answer, and the file after it
\* (the file of a process that is gone is unlinked)
is_analysis_running(file, alive) ==
    IF get_running_pid(file) = NoPidFile
    THEN [running |-> FALSE, file |-> file]
    ELSE IF is_process_running(get_running_pid(file), alive)
         THEN [running |-> TRUE, file |-> file]
         ELSE [running |-> FALSE, file |-> NoPidFile]

\* BackgroundRunner.cleanup_pid: the file is unlinked, whoever wrote it
cleanup_pid(file) == NoPidFile

\* analyze-background processes that may be started in one run
MaxRunners == 2

\* os.getpid() of the processes
Pids == 1..MaxRunners

\* a process not started yet: pending is the list run_analysis iterates,
\* retry the outcome of the check in _handle_analysis_error, exit_code the
\* argument of sys.exit (-1 before it)
IdleRunner == [pc |-> "idle", pending |-> <<>>, retry |-> FALSE, exit_code |-> -1]

NoRunners == [p \in Pids |-> IdleRunner]

----------------------------------------------------------------------------
\* Bounds of the model

MaxBatch == 2       \* atoms in an in-memory batch
MaxSteps == 4       \* engine operations in one run
MaxAtoms == 2       \* atom ids of the store
MaxEvents == 3      \* lifecycle events in one run

\* the clock advances by half an hour or by 30 days
Durations == {1, 30 * DAY}

\* between lifecycle events 3 days or 30 days pass
EventGaps == {3 * DAY, 30 * DAY}

MemAtom(i, c, t, n, at) ==
    [id |-> i, type |-> "identity", content |-> {"typescript"}, confidence |-> c,
     tier |-> t, created_at |-> at, last_triggered_at |-> at,
     trigger_count |-> n, tags |-> {}]

\* atoms as the extractor or an earlier run left them: (confidence, tier,
\* trigger_count)
InitialAtoms ==
    { <<8000, "short_term", 0>>, <<5800, "short_term", 2>>,
      <<5000, "short_term", 0>>, <<5000, "working", 2>>,
      <<9800, "long_term", 6>> }

StoredAtoms ==
    { <<5800, "short_term", 2>>, <<5000, "working", 2>>,
      <<10000, "working", 5>>, <<2500, "long_term", 6>> }

\* how long ago the stored atoms were created and last triggered
StartTimes == {3 * DAY, 30 * DAY}

\* the confidence the extractor gives a new atom
ExtractedConfidence == {2500, 8000}

\* profile.json injection_enabled, SessionStartHook(apply_decay, max_memories)
HookConfigs ==
    { <<TRUE, TRUE, HOOK_MAX_MEMORIES>>, <<TRUE, TRUE, 1>>,
      <<TRUE, FALSE, HOOK_MAX_MEMORIES>>, <<FALSE, TRUE, HOOK_MAX_MEMORIES>> }

EmptyStore == [t \in MemoryTier |-> <<>>]

NoOrigin == [confidence |-> -1]
OriginOf(m) ==
    [confidence |-> m.confidence, tier |-> m.tier, prev_pass |-> -1,
     last_pass |-> -1]

StoredOf(st) ==
    {st[t][i] : t \in {"short_term"}, i \in 1..Len(st["short_term"])}
        \cup {st[t][i] : t \in {"working"}, i \in 1..Len(st["working"])}
        \cup {st[t][i] : t \in {"long_term"}, i \in 1..Len(st["long_term"])}

StoredIds(st) == {m.id : m \in StoredOf(st)}

\* uuid4(): an id no stored atom has; MaxAtoms + 1 when the ids are used up
FreshId(st) ==
    CHOOSE i \in 1..(MaxAtoms + 1) :
        /\ i \notin StoredIds(st)
        /\ \A j \in 1..(i - 1) : j \in StoredIds(st)

\* the processes that may run a hook, the maintenance job or an extraction at
\* the same time on one storage root
Procs == {"a", "b"}

\* a process that executes no store method
Idle ==
    [pc |-> "idle", op |-> "none", id |-> 0, memory |-> None, k |-> 0,
     file |-> "none", old |-> <<>>, buffer |-> <<>>, after |-> "none",
     snap |-> EmptyStore, queue |-> <<>>]

NoQuery == [limit |-> 0]

NoCall == [before |-> <<>>, targets |-> {}, pattern_matched |-> FALSE]

NoHist == [base |-> EmptyStore, invs |-> <<>>, clean |-> TRUE,
           seen |-> <<>>, counts |-> <<>>, crashed |-> [file |-> "none"]]

----------------------------------------------------------------------------
\* The engines on atoms held in memory (no store)

InitEngines ==
    /\ now = 0
    /\ steps = 0
    /\ lastOp = "none"
    /\ \E k \in 1..MaxBatch :
         \E a \in [1..k -> InitialAtoms] :
            batch = [i \in 1..k |-> MemAtom(i, a[i][1], a[i][2], a[i][3], 0)]
    /\ to_keep = <<>>
    /\ to_remove = <<>>
    /\ lastCall = NoCall
    /\ store = EmptyStore
    /\ injected = <<>>
    /\ removed = {}
    /\ origin = <<>>
    /\ procs = [p \in Procs |-> Idle]
    /\ torn = {}
    /\ query = NoQuery
    /\ cache = EmptyCache
    /\ pid_file = NoPidFile
    /\ queue = <<>>
    /\ runners = NoRunners
    /\ hist = NoHist

\* datetime.now() moves on
Advance(d) ==
    /\ steps < MaxSteps
    /\ now' = now + d
    /\ steps' = steps + 1
    /\ lastOp' = "advance"
    /\ UNCHANGED <<engineVars, store, lifeVars, procVars>>

\* decay.process_batch(batch, now)
DecayBatch ==
    LET r == process_batch(batch, now)
    IN  /\ steps < MaxSteps
        /\ batch' = r.memories
        /\ to_keep' = r.to_keep
        /\ to_remove' = r.to_remove
        /\ lastCall' = NoCall
        /\ lastOp' = "decay"
        /\ steps' = steps + 1
        /\ UNCHANGED <<now, store, lifeVars, procVars>>

\* strengthening.trigger(batch[i], pattern_matched, now)
TriggerOne(i, pattern_matched) ==
    /\ steps < MaxSteps
    /\ batch' = [batch EXCEPT ![i] = trigger(@, pattern_matched, now)]
    /\ lastCall' = [before |-> batch, targets |-> {i},
                pattern_matched |-> pattern_matched]
    /\ lastOp' = "trigger"
    /\ steps' = steps + 1
    /\ UNCHANGED <<now, to_keep, to_remove, store, lifeVars, procVars>>

\* strengthening.strengthen_pattern(batch, now)
StrengthenPattern ==
    /\ steps < MaxSteps
    /\ batch' = strengthen_pattern(batch, now)
    /\ lastCall' = [before |-> batch, targets |-> 1..Len(batch),
                pattern_matched |-> TRUE]
    /\ lastOp' = "pattern"
    /\ steps' = steps + 1
    /\ UNCHANGED <<now, to_keep, to_remove, store, lifeVars, procVars>>

NextEngines ==
    \/ \E d \in Durations : Advance(d)
    \/ DecayBatch
    \/ \E i \in 1..Len(batch), p \in BOOLEAN : TriggerOne(i, p)
    \/ StrengthenPattern

SpecEngines == InitEngines /\ [][NextEngines]_vars

\* batches of atoms at and around the inline promotion thresholds
PromotableAtoms ==
    { <<5800, "short_term", 2>>, <<5000, "short_term", 4>>,
      <<8500, "short_term", 6>>, <<7800, "working", 6>> }

InitPromote ==
    /\ now = 0
    /\ steps = 0
    /\ lastOp = "none"
    /\ \E k \in 1..MaxBatch :
         \E a \in [1..k -> PromotableAtoms] :
            batch = [i \in 1..k |-> MemAtom(i, a[i][1], a[i][2], a[i][3], 0)]
    /\ to_keep = <<>>
    /\ to_remove = <<>>
    /\ lastCall = NoCall
    /\ store = EmptyStore
    /\ injected = <<>>
    /\ removed = {}
    /\ origin = <<>>
    /\ procs = [p \in Procs |-> Idle]
    /\ torn = {}
    /\ query = NoQuery
    /\ cache = EmptyCache
    /\ pid_file = NoPidFile
    /\ queue = <<>>
    /\ runners = NoRunners
    /\ hist = NoHist

SpecPromote == InitPromote /\ [][NextEngines]_vars

----------------------------------------------------------------------------
\* The lifecycle: one invocation at a time on the persisted store

Init ==
    /\ now \in StartTimes
    /\ steps = 0
    /\ lastOp = "none"
    /\ batch = <<>>
    /\ to_keep = <<>>
    /\ to_remove = <<>>
    /\ lastCall = NoCall
    /\ \E present \in SUBSET (1..MaxAtoms) :
         \E a \in [present -> StoredAtoms] :
            LET InTier(t) == {i \in present : a[i][2] = t}
                Recs(t) == [k \in 1..Cardinality(InTier(t)) |->
                    LET i == CHOOSE i \in InTier(t) :
                                Cardinality({j \in InTier(t) : j < i}) = k - 1
                    IN  MemAtom(i, a[i][1], a[i][2], a[i][3], 0)]
            IN  store = [t \in MemoryTier |-> Recs(t)]
    /\ injected = <<>>
    /\ removed = {}
    /\ origin = [i \in 1..MaxAtoms |->
                    IF get_by_id(store, i) = None THEN NoOrigin
                    ELSE OriginOf(get_by_id(store, i))]
    /\ procs = [p \in Procs |-> Idle]
    /\ torn = {}
    /\ query = NoQuery
    /\ cache = EmptyCache
    /\ pid_file = NoPidFile
    /\ queue = <<>>
    /\ runners = NoRunners
    /\ hist = NoHist

\* time passes between two invocations
Wait(d) ==
    /\ steps < MaxEvents
    /\ now' = now + d
    /\ steps' = steps + 1
    /\ lastOp' = "wait"
    /\ removed' = {}
    /\ UNCHANGED <<engineVars, store, injected, origin, procVars, query>>

\* the extractor saves a new atom: MemoryStore.save of a fresh id
ExtractorSave(i, c) ==
    /\ steps < MaxEvents
    /\ i \in 1..MaxAtoms
    /\ store' = save(store, MemAtom(i, c, "short_term", 0, now))
    /\ origin' = [origin EXCEPT ![i] = OriginOf(MemAtom(i, c, "short_term", 0, now))]
    /\ removed' = {}
    /\ steps' = steps + 1
    /\ lastOp' = "extract"
    /\ UNCHANGED <<now, engineVars, injected, procVars, query>>

\* SessionStartHook.handle()
SessionStart(injection_enabled, decay_enabled, max_memories) ==
    \E h \in {handle(store, now, injection_enabled, decay_enabled, max_memories)},
       r \in {process_batch(get_all(store, QueryOptions), now)} :
    \E kept \in {{r.memories[r.to_keep[i]].id : i \in 1..Len(r.to_keep)}},
       gone \in {{r.memories[r.to_remove[i]] : i \in 1..Len(r.to_remove)}},
       triggered \in {{h.memories[i].memory.id : i \in 1..Len(h.memories)}} :
        /\ steps < MaxEvents
        /\ store' = h.store
        /\ injected' = h.memories
        /\ removed' =
            IF injection_enabled /\ decay_enabled
            THEN {[id |-> m.id, tier |-> m.tier, decayed |-> m.confidence,
                   inactive |-> now - m.last_triggered_at] : m \in gone}
            ELSE {}
        /\ origin' = [i \in 1..MaxAtoms |->
            IF i \in triggered THEN OriginOf(get_by_id(h.store, i))
            ELSE IF ~(injection_enabled /\ decay_enabled) THEN origin[i]
            ELSE IF i \in {m.id : m \in gone} THEN NoOrigin
            ELSE IF i \in kept
                THEN [origin[i] EXCEPT !.prev_pass = origin[i].last_pass,
                                       !.last_pass = now]
            ELSE origin[i]]
        /\ steps' = steps + 1
        /\ lastOp' = "session_start"
        /\ UNCHANGED <<now, engineVars, procVars, query>>

\* TierManager.process_all(), the periodic maintenance job
ProcessAll ==
    \E p \in {process_all(store, now)} :
    \E deleted \in {{p.transitions[k].memory_id :
                        k \in {j \in 1..Len(p.transitions) :
                                    p.transitions[j].to_tier = "none"}}} :
        /\ steps < MaxEvents
        /\ store' = p.store
        /\ removed' =
            {[id |-> m.id, tier |-> m.tier,
              decayed |-> apply_time_decay(m, DEFAULT_HALF_LIFE_DAYS, now),
              inactive |-> now - m.last_triggered_at] :
                m \in {get_by_id(store, i) : i \in deleted}}
        /\ origin' = [i \in 1..MaxAtoms |->
                        IF i \in deleted THEN NoOrigin ELSE origin[i]]
        /\ steps' = steps + 1
        /\ lastOp' = "process_all"
        /\ UNCHANGED <<now, engineVars, injected, procVars, query>>

Next ==
    \/ \E d \in EventGaps : Wait(d)
    \/ \E c \in ExtractedConfidence : ExtractorSave(FreshId(store), c)
    \/ \E h \in HookConfigs : SessionStart(h[1], h[2], h[3])
    \/ ProcessAll

Spec == Init /\ [][Next]_vars

\* a store that holds more atoms than one get_all() call returns: QUERY_LIMIT
\* long-standing atoms of high confidence and up to MaxAtoms recent ones
Filler(k) == MemAtom(1000 + k, 9800, "long_term", 6, 0)

LargeAtoms == { <<2500, "short_term", 0>>, <<5800, "short_term", 2>> }

InitLarge ==
    /\ now \in StartTimes
    /\ steps = 0
    /\ lastOp = "none"
    /\ batch = <<>>
    /\ to_keep = <<>>
    /\ to_remove = <<>>
    /\ lastCall = NoCall
    /\ \E present \in SUBSET (1..MaxAtoms) :
         \E a \in [present -> LargeAtoms] :
            LET Recs == [k \in 1..Cardinality(present) |->
                    LET i == CHOOSE i \in present :
                                Cardinality({j \in present : j < i}) = k - 1
                    IN  MemAtom(i, a[i][1], a[i][2], a[i][3], 0)]
            IN  store = [t \in MemoryTier |->
                    IF t = "short_term" THEN Recs \o <<>>
                    ELSE IF t = "long_term"
                        THEN [k \in 1..QUERY_LIMIT |-> Filler(k)] \o <<>>
                    ELSE <<>>]
    /\ injected = <<>>
    /\ removed = {}
    /\ origin = [i \in 1..MaxAtoms |->
                    IF get_by_id(store, i) = None THEN NoOrigin
                    ELSE OriginOf(get_by_id(store, i))]
    /\ procs = [p \in Procs |-> Idle]
    /\ torn = {}
    /\ query = NoQuery
    /\ cache = EmptyCache
    /\ pid_file = NoPidFile
    /\ queue = <<>>
    /\ runners = NoRunners
    /\ hist = NoHist

\* the hook with its defaults, and the maintenance job, on the large store
NextLarge ==
    \/ \E d \in EventGaps : Wait(d)
    \/ SessionStart(TRUE, TRUE, HOOK_MAX_MEMORIES)
    \/ ProcessAll

SpecLarge == InitLarge /\ [][NextLarge]_vars

----------------------------------------------------------------------------
\* Concurrent invocations on one storage root.  Every _load_tier (read_json)
\* is one step; every _save_tier (write_json -> Path.write_text) is two: the
\* file is opened, which truncates it, and later written and closed.

MaxCalls == 2       \* store methods invoked in one run

\* the tier files that hold a record with this id
Holders(st, id) == {t \in MemoryTier : id \in SeqIds(st[t])}

\* uuid4() of an extraction: an id no atom ever had
UsedIds ==
    StoredIds(hist.base) \cup {hist.invs[i].id : i \in 1..Len(hist.invs)}

NewId ==
    CHOOSE i \in 1..(MaxAtoms + 1) :
        /\ i \notin UsedIds
        /\ \A j \in 1..(i - 1) : j \in UsedIds

\* what one invocation does when nothing runs beside it
RunAlone(st, inv, at) ==
    CASE inv.op = "trigger" -> store_trigger(st, inv.id, at)
      [] inv.op = "extract" -> save(st, inv.memory)
      [] inv.op = "decay" -> apply_memory_decay(st, at)
      [] inv.op = "upgrade" ->
            LET memory == get_by_id(st, inv.id)
            IN  IF memory = None THEN st
                ELSE IF check_upgrade(memory, at) = "none" THEN st
                ELSE upgrade(st, memory, check_upgrade(memory, at))

RECURSIVE RunSerial(_, _, _)
RunSerial(st, invs, at) ==
    IF invs = <<>> THEN st
    ELSE RunSerial(RunAlone(st, Head(invs), at), Tail(invs), at)

\* the stores the serial executions of the invocations can leave
SerialOutcomes(st, invs, at) ==
    LET n == Len(invs)
        Orders == {f \in [1..n -> 1..n] : \A i, j \in 1..n : f[i] = f[j] => i = j}
    IN  {RunSerial(st, [i \in 1..n |-> invs[f[i]]], at) : f \in Orders}

\* the highest tier index an id was seen in through get_by_id while no file
\* was open for writing; 0 once it is seen in no tier
Observe(seen, st, tn) ==
    [i \in 1..MaxAtoms |->
        IF tn /= {} THEN seen[i]
        ELSE IF get_by_id(st, i) = None THEN 0
        ELSE Max(seen[i], TierIndex(get_by_id(st, i).tier))]

\* the highest trigger_count an id was seen with through get_by_id while no
\* file was open for writing; 0 once it is seen in no tier
ObserveCount(counts, st, tn) ==
    [i \in 1..MaxAtoms |->
        IF tn /= {} THEN counts[i]
        ELSE IF get_by_id(st, i) = None THEN 0
        ELSE Max(counts[i], get_by_id(st, i).trigger_count)]

InitStore ==
    /\ now = 3 * DAY
    /\ steps = 0
    /\ lastOp = "none"
    /\ batch = <<>>
    /\ to_keep = <<>>
    /\ to_remove = <<>>
    /\ lastCall = NoCall
    /\ \E present \in SUBSET (1..MaxAtoms) :
         \E a \in [present -> StoredAtoms] :
            LET InTier(t) == {i \in present : a[i][2] = t}
                Recs(t) == [k \in 1..Cardinality(InTier(t)) |->
                    LET i == CHOOSE i \in InTier(t) :
                                Cardinality({j \in InTier(t) : j < i}) = k - 1
                    IN  MemAtom(i, a[i][1], a[i][2], a[i][3], 0)]
            IN  store = [t \in MemoryTier |-> Recs(t)]
    /\ injected = <<>>
    /\ removed = {}
    /\ origin = <<>>
    /\ procs = [p \in Procs |-> Idle]
    /\ torn = {}
    /\ query = NoQuery
    /\ cache = EmptyCache
    /\ pid_file = NoPidFile
    /\ queue = <<>>
    /\ runners = NoRunners
    /\ hist = [base |-> store, invs |-> <<>>, clean |-> TRUE,
               seen |-> Observe([i \in 1..MaxAtoms |-> 0], store, {}),
               counts |-> ObserveCount([i \in 1..MaxAtoms |-> 0], store, {}),
               crashed |-> [file |-> "none"]]

\* one step of process p: its new position, the files afterwards
Step(p, rec, st, tn, op) ==
    /\ procs' = [procs EXCEPT ![p] = rec]
    /\ store' = st
    /\ torn' = tn
    /\ hist' = [hist EXCEPT !.seen = Observe(@, st, tn),
                            !.counts = ObserveCount(@, st, tn)]
    /\ lastOp' = op
    /\ UNCHANGED <<now, steps, engineVars, lifeVars, cache, analysisVars>>

\* json.loads of a file that is open for writing raises: the method fails
Fail(p) ==
    /\ procs' = [procs EXCEPT ![p] = Idle]
    /\ hist' = [hist EXCEPT !.clean = FALSE]
    /\ lastOp' = "error"
    /\ UNCHANGED <<now, steps, store, torn, engineVars, lifeVars, cache, analysisVars>>

\* an invocation starts
Begin(p, rec, inv) ==
    /\ procs[p].pc = "idle"
    /\ steps < MaxCalls
    /\ procs' = [procs EXCEPT ![p] = rec]
    /\ hist' = [hist EXCEPT !.invs = Append(@, inv)]
    /\ steps' = steps + 1
    /\ lastOp' = inv.op
    /\ UNCHANGED <<now, store, torn, engineVars, lifeVars, cache, analysisVars>>

\* the method returns: the caller's next store call, if it has one
Continue(rec) ==
    IF rec.queue = <<>> THEN Idle
    ELSE LET call == Head(rec.queue)
         IN  IF call.call = "save"
             THEN [Idle EXCEPT !.op = rec.op, !.pc = "save_load",
                               !.memory = call.memory, !.id = call.memory.id,
                               !.queue = Tail(rec.queue)]
             ELSE [Idle EXCEPT !.op = rec.op, !.pc = "delete",
                               !.id = call.memory.id, !.k = 1,
                               !.queue = Tail(rec.queue)]

\* MemoryRetriever / SessionStartHook: store.trigger(id)
BeginTrigger(p, id) ==
    /\ id \in StoredIds(store)
    /\ Begin(p, [Idle EXCEPT !.op = "trigger", !.pc = "get_by_id", !.id = id,
                             !.k = 1],
             [op |-> "trigger", id |-> id, memory |-> None])

\* the extractor: store.save(memory) of a new atom
BeginExtract(p, c) ==
    /\ NewId \in 1..MaxAtoms
    /\ Begin(p, [Idle EXCEPT !.op = "extract", !.pc = "save_load", !.id = NewId,
                             !.memory = MemAtom(NewId, c, "short_term", 0, now)],
             [op |-> "extract", id |-> NewId,
              memory |-> MemAtom(NewId, c, "short_term", 0, now)])

\* TierManager._process_tier: check_upgrade(memory) of a loaded atom gives a
\* target tier; TierManager.upgrade sets memory.tier and calls store.update
BeginUpgrade(p, id) ==
    /\ torn = {}
    /\ get_by_id(store, id) /= None
    /\ check_upgrade(get_by_id(store, id), now) /= "none"
    /\ Begin(p, [Idle EXCEPT !.op = "upgrade", !.pc = "get_by_id", !.id = id,
                             !.k = 1,
                             !.memory = [get_by_id(store, id) EXCEPT
                                !.tier = check_upgrade(get_by_id(store, id), now)]],
             [op |-> "upgrade", id |-> id, memory |-> None])

\* SessionStartHook._apply_memory_decay
BeginDecay(p) ==
    Begin(p, [Idle EXCEPT !.op = "decay", !.pc = "get_all", !.k = 1],
          [op |-> "decay", id |-> 0, memory |-> None])

\* MemoryStore.get_by_id inside trigger and update: one _load_tier
GetById(p) ==
    LET rec == procs[p]
        t == TierOrder[rec.k]
        m == store[t][FirstIndex(store[t], rec.id)]
    IN  /\ rec.pc = "get_by_id"
        /\ IF t \in torn THEN Fail(p)
           ELSE IF rec.id \in SeqIds(store[t])
           THEN IF rec.op = "trigger"
                THEN Step(p, [rec EXCEPT !.pc = "save_load",
                                  !.memory = [m EXCEPT !.last_triggered_at = now,
                                                       !.trigger_count = @ + 1]],
                          store, torn, "get_by_id")
                ELSE IF m.tier /= rec.memory.tier
                THEN Step(p, [rec EXCEPT !.pc = "remove_from_tier", !.file = m.tier],
                          store, torn, "get_by_id")
                ELSE Step(p, [rec EXCEPT !.pc = "save_load"], store, torn,
                          "get_by_id")
           ELSE IF rec.k < 3
           THEN Step(p, [rec EXCEPT !.k = @ + 1], store, torn, "get_by_id")
           ELSE \* trigger returns None, update raises MEMORY_NOT_FOUND
                Step(p, Continue(rec), store, torn, "get_by_id")

\* MemoryStore._remove_from_tier(existing.id, existing.tier) inside update:
\* the load; the write follows when the list got shorter
RemoveFromTier(p) ==
    LET rec == procs[p]
        t == rec.file
    IN  /\ rec.pc = "remove_from_tier"
        /\ IF t \in torn THEN Fail(p)
           ELSE IF rec.id \in SeqIds(store[t])
           THEN Step(p, [rec EXCEPT !.pc = "write_open",
                                    !.buffer = without(store[t], rec.id),
                                    !.after = "save_load"],
                     store, torn, "remove_from_tier")
           ELSE Step(p, [rec EXCEPT !.pc = "save_load", !.file = "none"],
                     store, torn, "remove_from_tier")

\* MemoryStore.save: the load of memory.tier and the upsert in memory
SaveLoad(p) ==
    LET rec == procs[p]
        t == rec.memory.tier
    IN  /\ rec.pc = "save_load"
        /\ IF t \in torn THEN Fail(p)
           ELSE Step(p, [rec EXCEPT !.pc = "write_open", !.file = t,
                                    !.buffer = upsert(store[t], rec.memory),
                                    !.after = "return"],
                     store, torn, "save_load")

\* MemoryStore.delete: _remove_from_tier of one tier after the other
Delete(p) ==
    LET rec == procs[p]
        t == TierOrder[rec.k]
    IN  /\ rec.pc = "delete"
        /\ IF t \in torn THEN Fail(p)
           ELSE IF rec.id \in SeqIds(store[t])
           THEN Step(p, [rec EXCEPT !.pc = "write_open", !.file = t,
                                    !.buffer = without(store[t], rec.id),
                                    !.after = "return"],
                     store, torn, "delete")
           ELSE IF rec.k < 3
           THEN Step(p, [rec EXCEPT !.k = @ + 1], store, torn, "delete")
           ELSE Step(p, Continue(rec), store, torn, "delete")

\* MemoryStore.get_all inside _apply_memory_decay: one _load_tier; after the
\* last one process_batch, which leaves the saves and the deletes to do
GetAll(p) ==
    LET rec == procs[p]
        t == TierOrder[rec.k]
        snap == [rec.snap EXCEPT ![t] = store[t]]
        r == process_batch(get_all(snap, QueryOptions), now)
        saves == [i \in 1..Len(r.to_keep) |->
                    [call |-> "save", memory |-> r.memories[r.to_keep[i]]]]
        deletes == [i \in 1..Len(r.to_remove) |->
                    [call |-> "delete", memory |-> r.memories[r.to_remove[i]]]]
    IN  /\ rec.pc = "get_all"
        /\ IF t \in torn THEN Fail(p)
           ELSE IF rec.k < 3
           THEN Step(p, [rec EXCEPT !.k = @ + 1, !.snap = snap], store, torn,
                     "get_all")
           ELSE Step(p, Continue([rec EXCEPT !.queue = saves \o deletes]),
                     store, torn, "get_all")

\* write_json: Path.write_text opens the file, which truncates it
WriteOpen(p) ==
    LET rec == procs[p]
    IN  /\ rec.pc = "write_open"
        /\ Step(p, [rec EXCEPT !.pc = "write_close", !.old = store[rec.file]],
                [store EXCEPT ![rec.file] = <<>>], torn \cup {rec.file},
                "write_open")

\* write_json: the text is written from offset 0 and the file closed; what
\* another writer left beyond it stays, and the file is then no JSON list
WriteClose(p) ==
    LET rec == procs[p]
        next == IF rec.after = "save_load"
                THEN [rec EXCEPT !.pc = "save_load", !.file = "none", !.old = <<>>,
                                 !.buffer = <<>>, !.after = "none"]
                ELSE Continue(rec)
    IN  /\ rec.pc = "write_close"
        /\ IF Len(store[rec.file]) > Len(rec.buffer)
           THEN Step(p, next, [store EXCEPT ![rec.file] = <<>>],
                     torn \cup {rec.file}, "write_close")
           ELSE Step(p, next, [store EXCEPT ![rec.file] = rec.buffer],
                     torn \ {rec.file}, "write_close")

\* the process is killed (the hook's timeout, a signal, power loss)
Crash(p) ==
    /\ procs[p].pc /= "idle"
    /\ procs' = [procs EXCEPT ![p] = Idle]
    /\ hist' = [hist EXCEPT
                    !.clean = FALSE,
                    !.crashed =
                        IF procs[p].pc = "write_close"
                        THEN [file |-> procs[p].file, old |-> procs[p].old,
                              new |-> procs[p].buffer,
                              alone |-> \A q \in Procs \ {p} :
                                            procs[q].pc = "idle"]
                        ELSE [file |-> "none"]]
    /\ lastOp' = "crash"
    /\ UNCHANGED <<now, steps, store, torn, engineVars, lifeVars, cache, analysisVars>>

NextStore ==
    \E p \in Procs :
        \/ \E id \in 1..MaxAtoms : BeginTrigger(p, id)
        \/ \E c \in ExtractedConfidence : BeginExtract(p, c)
        \/ \E id \in 1..MaxAtoms : BeginUpgrade(p, id)
        \/ BeginDecay(p)
        \/ GetById(p)
        \/ RemoveFromTier(p)
        \/ SaveLoad(p)
        \/ Delete(p)
        \/ GetAll(p)
        \/ WriteOpen(p)
        \/ WriteClose(p)
        \/ Crash(p)

SpecStore == InitStore /\ [][NextStore]_vars

----------------------------------------------------------------------------
\* Retrieval on stores of any content

MaxStored == 4      \* atoms in the store retrieval reads
MaxQueries == 2     \* retrievals and waits in one run

\* (confidence, tier, trigger_count) of the atoms retrieval reads
RetrieveAtoms ==
    { <<9000, "short_term", 0>>, <<3500, "working", 2>>,
      <<8000, "long_term", 6>> }

\* retrieve_relevant(limit, min_confidence, context)
Limits == {1, 2}
MinConfidences == {0, HOOK_MIN_CONFIDENCE, 9500}
Contexts == {{}, {"typescript"}, {"python"}}

InitRetrieve ==
    /\ now = 0
    /\ steps = 0
    /\ lastOp = "none"
    /\ batch = <<>>
    /\ to_keep = <<>>
    /\ to_remove = <<>>
    /\ lastCall = NoCall
    /\ \E n \in 0..MaxStored :
         \E a \in [1..n -> RetrieveAtoms] :
            LET InTier(t) == {i \in 1..n : a[i][2] = t}
                Recs(t) == [k \in 1..Cardinality(InTier(t)) |->
                    LET i == CHOOSE i \in InTier(t) :
                                Cardinality({j \in InTier(t) : j < i}) = k - 1
                    IN  MemAtom(i, a[i][1], a[i][2], a[i][3], 0)]
            IN  store = [t \in MemoryTier |-> Recs(t)]
    /\ injected = <<>>
    /\ removed = {}
    /\ origin = <<>>
    /\ procs = [p \in Procs |-> Idle]
    /\ torn = {}
    /\ cache = EmptyCache
    /\ pid_file = NoPidFile
    /\ queue = <<>>
    /\ runners = NoRunners
    /\ hist = NoHist
    /\ query = NoQuery

\* time passes before a retrieval
Pass(d) ==
    /\ steps < MaxQueries
    /\ now' = now + d
    /\ steps' = steps + 1
    /\ lastOp' = "pass"
    /\ UNCHANGED <<engineVars, store, lifeVars, procVars>>

\* MemoryRetriever.retrieve_relevant(limit, min_confidence, context): the
\* list returned, and store.trigger of every atom in it
Retrieve(limit, min_confidence, context) ==
    \E result \in {retrieve_relevant(store, limit, min_confidence, context, now)} :
        /\ steps < MaxQueries
        /\ injected' = result
        /\ store' = trigger_all(store, ResultIds(result), now)
        /\ query' = [limit |-> limit, min_confidence |-> min_confidence,
                     context |-> context, before |-> store]
        /\ steps' = steps + 1
        /\ lastOp' = "retrieve"
        /\ UNCHANGED <<now, engineVars, removed, origin, procVars>>

NextRetrieve ==
    \/ \E d \in EventGaps : Pass(d)
    \/ \E limit \in Limits, min_confidence \in MinConfidences,
          context \in Contexts : Retrieve(limit, min_confidence, context)

SpecRetrieve == InitRetrieve /\ [][NextRetrieve]_vars

----------------------------------------------------------------------------
\* format_for_injection on lists of any content

MaxListed == 4      \* scored memories in the list to format

\* (type, length of content, confidence) of the memories to format
ListedAtoms ==
    { <<ty, n, c>> : ty \in {"identity", "value", "communication"},
                     n \in {10, 481}, c \in {9000, 2000} }

\* max_length: the hook's default and two small ones
MaxLengths == {40, 100, HOOK_MAX_CONTEXT_LENGTH}

InitFormat ==
    /\ now = 0
    /\ steps = 0
    /\ lastOp = "none"
    /\ batch = <<>>
    /\ to_keep = <<>>
    /\ to_remove = <<>>
    /\ lastCall = NoCall
    /\ store = [t \in MemoryTier |-> <<>>]
    /\ \E n \in 0..MaxListed :
         \E a \in [1..n -> ListedAtoms] :
            injected = [i \in 1..n |->
                            [memory |-> [id |-> i, type |-> a[i][1],
                                         content_len |-> a[i][2],
                                         confidence |-> a[i][3]],
                             relevance_score |-> 0]] \o <<>>
    /\ removed = {}
    /\ origin = <<>>
    /\ procs = [p \in Procs |-> Idle]
    /\ torn = {}
    /\ cache = EmptyCache
    /\ pid_file = NoPidFile
    /\ queue = <<>>
    /\ runners = NoRunners
    /\ hist = NoHist
    /\ query = NoQuery

\* retriever.format_for_injection(memories, max_length)
Format(max_length) ==
    /\ lastOp = "none"
    /\ lastCall' = [before |-> store, targets |-> {}, pattern_matched |-> FALSE,
                    max_length |-> max_length,
                    result |-> format_for_injection(injected, max_length)]
    /\ lastOp' = "format"
    /\ UNCHANGED <<now, steps, batch, to_keep, to_remove, store, lifeVars, procVars>>

NextFormat == \E max_length \in MaxLengths : Format(max_length)

SpecFormat == InitFormat /\ [][NextFormat]_vars

----------------------------------------------------------------------------
\* find_pattern_matches on atoms and candidates of any type and tags

MaxCandidates == 2  \* atoms in all_memories

TagSets == SUBSET {"typescript", "language", "style"}
MatchTypes == {"identity", "preference"}

\* similarity_threshold in hundredths: 0.7 is the default
Thresholds == {0, 50, 70, 100}

TaggedAtom(i, ty, tags) ==
    [MemAtom(i, 5000, "short_term", 0, 0) EXCEPT !.type = ty, !.tags = tags]

InitMatches ==
    /\ now = 0
    /\ steps = 0
    /\ lastOp = "none"
    /\ \E n \in 0..MaxCandidates :
         \E ids \in [1..n -> 1..2], tys \in [1..n -> MatchTypes],
            tags \in [1..n -> TagSets] :
                batch = [k \in 1..n |-> TaggedAtom(ids[k], tys[k], tags[k])] \o <<>>
    /\ to_keep = <<>>
    /\ to_remove = <<>>
    /\ \E tags \in TagSets :
            lastCall = [NoCall EXCEPT !.before = TaggedAtom(1, "identity", tags)]
    /\ store = [t \in MemoryTier |-> <<>>]
    /\ injected = <<>>
    /\ removed = {}
    /\ origin = <<>>
    /\ procs = [p \in Procs |-> Idle]
    /\ torn = {}
    /\ cache = EmptyCache
    /\ pid_file = NoPidFile
    /\ queue = <<>>
    /\ runners = NoRunners
    /\ hist = NoHist
    /\ query = NoQuery

\* strengthening.find_pattern_matches(memory, all_memories, threshold):
\* memory is lastCall.before, all_memories is batch
FindMatches(similarity_threshold) ==
    /\ lastOp = "none"
    /\ lastCall' = lastCall @@
            [similarity_threshold |-> similarity_threshold,
             result |-> find_pattern_matches(lastCall.before, batch,
                                             similarity_threshold)]
    /\ lastOp' = "find_pattern_matches"
    /\ UNCHANGED <<now, steps, batch, to_keep, to_remove, store, lifeVars, procVars>>

NextMatches == \E similarity_threshold \in Thresholds : FindMatches(similarity_threshold)

SpecMatches == InitMatches /\ [][NextMatches]_vars

----------------------------------------------------------------------------
\* The methods of MemoryStore called one after the other

CallAtoms == { <<5800, "short_term", 2>>, <<5000, "working", 2>> }

\* a persisted record that model_validate rejects: confidence 2.0
Malformed(t) == MemAtom(900, 2 * CONF_ONE, t, 0, 0)

\* the store without the records model_validate rejects
WellFormed(st) ==
    [t \in MemoryTier |-> SelectSeq(st[t], model_validate_ok)]

\* the atom a caller passes for an id: the stored one, or a new one
CallAtom(i) ==
    IF get_by_id(store, i) = None THEN MemAtom(i, 8000, "short_term", 0, now)
    ELSE get_by_id(store, i)

InitCalls ==
    /\ now = 3 * DAY
    /\ steps = 0
    /\ lastOp = "none"
    /\ batch = <<>>
    /\ to_keep = <<>>
    /\ to_remove = <<>>
    /\ lastCall = NoCall
    /\ \E present \in SUBSET (1..MaxAtoms) :
         \E a \in [present -> CallAtoms] :
            LET InTier(t) == {i \in present : a[i][2] = t}
                Recs(t) == [k \in 1..Cardinality(InTier(t)) |->
                    LET i == CHOOSE i \in InTier(t) :
                                Cardinality({j \in InTier(t) : j < i}) = k - 1
                    IN  MemAtom(i, a[i][1], a[i][2], a[i][3], 0)]
            IN  \E corrupt \in MemoryTier \cup {"none"} :
                    store = [t \in MemoryTier |->
                                IF t = corrupt THEN Append(Recs(t), Malformed(t))
                                ELSE Recs(t) \o <<>>]
    /\ injected = <<>>
    /\ removed = {}
    /\ origin = <<>>
    /\ procs = [p \in Procs |-> Idle]
    /\ torn = {}
    /\ query = NoQuery
    /\ cache = EmptyCache
    /\ pid_file = NoPidFile
    /\ queue = <<>>
    /\ runners = NoRunners
    /\ hist = NoHist

\* one call returned: the store before it, the id it was about, its result
Called(op, i, st, result) ==
    /\ steps < MaxCalls
    /\ store' = st
    /\ lastCall' = [before |-> store, targets |-> {i}, pattern_matched |-> FALSE,
                    result |-> result]
    /\ lastOp' = op
    /\ steps' = steps + 1
    /\ UNCHANGED <<now, batch, to_keep, to_remove, lifeVars, procVars>>

\* store.save(memory), memory.tier set by the caller
CallSave(i, t) ==
    \E memory \in {[CallAtom(i) EXCEPT !.tier = t]} :
        Called("save", i, save(store, memory), memory)

\* store.save_batch([first, second]), both of tier t
CallSaveBatch(i, j, t) ==
    \E memories \in {<<[CallAtom(i) EXCEPT !.tier = t],
                       [CallAtom(j) EXCEPT !.tier = t, !.confidence = 9000]>>} :
        Called("save_batch", i, save_batch(store, memories), memories)

\* store.update(memory), memory.tier set by the caller
CallUpdate(i, t) ==
    \E memory \in {[CallAtom(i) EXCEPT !.tier = t]} :
        Called("update", i, update(store, memory), update_result(store, memory))

\* store.trigger(id)
CallTrigger(i) ==
    Called("trigger", i, store_trigger(store, i, now), trigger_result(store, i, now))

\* store.delete(id)
CallDelete(i) ==
    Called("delete", i, delete(store, i), delete_result(store, i))

\* store.get_all(QueryOptions(tier=...)), "any" for no tier
CallGetAll(t) ==
    \E options \in {[QueryOptions EXCEPT !.tier = t]} :
        Called("get_all", 0, store,
               get_all_result(store, options) @@ [tier |-> t])

NextCalls ==
    \/ \E t \in MemoryTier \cup {"any"} : CallGetAll(t)
    \/ \E i \in 1..MaxAtoms, t \in MemoryTier : CallSave(i, t)
    \/ \E i, j \in 1..MaxAtoms, t \in MemoryTier : CallSaveBatch(i, j, t)
    \/ \E i \in 1..MaxAtoms, t \in MemoryTier : CallUpdate(i, t)
    \/ \E i \in 1..MaxAtoms : CallTrigger(i)
    \/ \E i \in 1..MaxAtoms : CallDelete(i)

SpecCalls == InitCalls /\ [][NextCalls]_vars

\* the calls that take one atom or one id
NextSingle ==
    \/ \E i \in 1..MaxAtoms, t \in MemoryTier : CallSave(i, t)
    \/ \E i \in 1..MaxAtoms, t \in MemoryTier : CallUpdate(i, t)
    \/ \E i \in 1..MaxAtoms : CallTrigger(i)
    \/ \E i \in 1..MaxAtoms : CallDelete(i)

SpecSingle == InitCalls /\ [][NextSingle]_vars

----------------------------------------------------------------------------
\* SessionStartHook.handle when a stage of it fails

InitFaulty ==
    /\ now = 3 * DAY
    /\ steps = 0
    /\ lastOp = "none"
    /\ batch = <<>>
    /\ to_keep = <<>>
    /\ to_remove = <<>>
    /\ lastCall = NoCall
    /\ \E present \in SUBSET (1..MaxAtoms) :
         \E a \in [present -> CallAtoms] :
            LET InTier(t) == {i \in present : a[i][2] = t}
                Recs(t) == [k \in 1..Cardinality(InTier(t)) |->
                    LET i == CHOOSE i \in InTier(t) :
                                Cardinality({j \in InTier(t) : j < i}) = k - 1
                    IN  MemAtom(i, a[i][1], a[i][2], a[i][3], 0)]
            IN  store = [t \in MemoryTier |-> Recs(t) \o <<>>]
    /\ injected = <<>>
    /\ removed = {}
    /\ origin = <<>>
    /\ procs = [p \in Procs |-> Idle]
    /\ torn = {}
    /\ query = NoQuery
    /\ cache = EmptyCache
    /\ pid_file = NoPidFile
    /\ queue = <<>>
    /\ runners = NoRunners
    /\ hist = NoHist

\* SessionStartHook.handle() while a stage of it may raise an exception
SessionStartFaulty(injection_enabled, decay_enabled, fault) ==
    \E h \in {handle_guarded(store, now, injection_enabled, decay_enabled,
                             HOOK_MAX_MEMORIES, fault)} :
        /\ steps < MaxQueries
        /\ store' = h.store
        /\ injected' = h.memories
        /\ lastCall' = [before |-> store, targets |-> {}, pattern_matched |-> FALSE,
                        injection_enabled |-> injection_enabled,
                        output |-> h.output, raised |-> h.raised,
                        propagated |-> h.propagated]
        /\ removed' = {}
        /\ steps' = steps + 1
        /\ lastOp' = "handle"
        /\ UNCHANGED <<now, batch, to_keep, to_remove, origin, procVars, query>>

NextFaulty ==
    \/ \E d \in EventGaps : Pass(d)
    \/ \E enabled \in {<<TRUE, TRUE>>, <<TRUE, FALSE>>, <<FALSE, TRUE>>},
          fault \in HandleStages \cup {"none"} :
            SessionStartFaulty(enabled[1], enabled[2], fault)

SpecFaulty == InitFaulty /\ [][NextFaulty]_vars

----------------------------------------------------------------------------
\* The periodic maintenance on atoms that sessions have triggered

InitTiers ==
    /\ now = 30 * DAY
    /\ steps = 0
    /\ lastOp = "none"
    /\ batch = <<>>
    /\ to_keep = <<>>
    /\ to_remove = <<>>
    /\ lastCall = NoCall
    /\ \E present \in SUBSET (1..MaxAtoms) :
         \E a \in [present -> PromotableAtoms] :
            LET InTier(t) == {i \in present : a[i][2] = t}
                Recs(t) == [k \in 1..Cardinality(InTier(t)) |->
                    LET i == CHOOSE i \in InTier(t) :
                                Cardinality({j \in InTier(t) : j < i}) = k - 1
                    IN  MemAtom(i, a[i][1], a[i][2], a[i][3], 0)]
            IN  store = [t \in MemoryTier |-> Recs(t) \o <<>>]
    /\ injected = <<>>
    /\ removed = {}
    /\ origin = [i \in 1..MaxAtoms |-> NoOrigin]
    /\ procs = [p \in Procs |-> Idle]
    /\ torn = {}
    /\ query = NoQuery
    /\ cache = EmptyCache
    /\ pid_file = NoPidFile
    /\ queue = <<>>
    /\ runners = NoRunners
    /\ hist = NoHist

NextTiers ==
    \/ \E d \in EventGaps : Wait(d)
    \/ \E i \in 1..MaxAtoms : CallTrigger(i)
    \/ ProcessAll

SpecTiers == InitTiers /\ [][NextTiers]_vars

----------------------------------------------------------------------------
\* Sequences of trigger calls on atoms held in memory

\* query records, for every atom of the batch, the atom before the first
\* call, the time of the previous call, the number of calls, and whether
\* every call so far came less than 1 hour after the previous one
InitDebounce ==
    /\ now = 0
    /\ steps = 0
    /\ lastOp = "none"
    /\ \E k \in 1..MaxBatch :
         \E a \in [1..k -> InitialAtoms] :
            batch = [i \in 1..k |-> MemAtom(i, a[i][1], a[i][2], a[i][3], 0)] \o <<>>
    /\ to_keep = <<>>
    /\ to_remove = <<>>
    /\ lastCall = NoCall
    /\ store = EmptyStore
    /\ injected = <<>>
    /\ removed = {}
    /\ origin = <<>>
    /\ procs = [p \in Procs |-> Idle]
    /\ torn = {}
    /\ query = [first |-> batch,
                previous |-> [i \in 1..Len(batch) |-> batch[i].last_triggered_at],
                calls |-> [i \in 1..Len(batch) |-> 0],
                chained |-> [i \in 1..Len(batch) |-> TRUE]]
    /\ cache = EmptyCache
    /\ pid_file = NoPidFile
    /\ queue = <<>>
    /\ runners = NoRunners
    /\ hist = NoHist

\* half an hour or three hours pass
Elapse(d) ==
    /\ steps < MaxSteps
    /\ now' = now + d
    /\ steps' = steps + 1
    /\ lastOp' = "advance"
    /\ UNCHANGED <<engineVars, store, lifeVars, procVars>>

\* strengthening.trigger(batch[i], pattern_matched, now)
TriggerAgain(i, pattern_matched) ==
    /\ steps < MaxSteps
    /\ batch' = [batch EXCEPT ![i] = trigger(@, pattern_matched, now)]
    /\ lastCall' = [before |-> batch, targets |-> {i},
                    pattern_matched |-> pattern_matched]
    /\ query' = [query EXCEPT
                    !.previous[i] = now,
                    !.calls[i] = @ + 1,
                    !.chained[i] = @ /\ now - query.previous[i] < HOUR]
    /\ lastOp' = "trigger"
    /\ steps' = steps + 1
    /\ UNCHANGED <<now, to_keep, to_remove, store, injected, removed, origin, procVars>>

NextDebounce ==
    \/ \E d \in {1, 3 * HOUR} : Elapse(d)
    \/ \E i \in 1..Len(batch), p \in BOOLEAN : TriggerAgain(i, p)

SpecDebounce == InitDebounce /\ [][NextDebounce]_vars

----------------------------------------------------------------------------
\* The cache under add_memory and remove_memory

\* (type, tier, tags, confidence) of the atoms added
CachedAtoms ==
    { <<ty, t, g, c>> : ty \in {"identity", "preference"},
                        t \in {"short_term", "working"},
                        g \in {{}, {"typescript"}, {"typescript", "python"}},
                        c \in {5000, 8000} }

InitCache ==
    /\ now = 0
    /\ steps = 0
    /\ lastOp = "none"
    /\ batch = <<>>
    /\ to_keep = <<>>
    /\ to_remove = <<>>
    /\ lastCall = NoCall
    /\ store = EmptyStore
    /\ injected = <<>>
    /\ removed = {}
    /\ origin = <<>>
    /\ procs = [p \in Procs |-> Idle]
    /\ torn = {}
    /\ query = NoQuery
    /\ cache = EmptyCache
    /\ pid_file = NoPidFile
    /\ queue = <<>>
    /\ runners = NoRunners
    /\ hist = NoHist

\* cache.add_memory(memory)
AddMemory(i, a) ==
    /\ steps < MaxCalls + 1
    /\ cache' = add_memory(cache,
                    [MemAtom(i, a[4], a[2], 0, now) EXCEPT !.type = a[1],
                                                          !.tags = a[3]])
    /\ steps' = steps + 1
    /\ lastOp' = "add_memory"
    /\ UNCHANGED <<now, engineVars, store, lifeVars, procs, torn, hist, analysisVars>>

\* cache.remove_memory(memory_id)
RemoveMemory(i) ==
    /\ steps < MaxCalls + 1
    /\ cache' = remove_memory(cache, i)
    /\ steps' = steps + 1
    /\ lastOp' = "remove_memory"
    /\ UNCHANGED <<now, engineVars, store, lifeVars, procs, torn, hist, analysisVars>>

NextCache ==
    \/ \E i \in 1..MaxAtoms, a \in CachedAtoms : AddMemory(i, a)
    \/ \E i \in 1..MaxAtoms : RemoveMemory(i)

SpecCache == InitCache /\ [][NextCache]_vars

----------------------------------------------------------------------------
\* analyze-background processes on one storage root
\*
\* A process is at one of: idle (not started), check (before
\* is_analysis_running), write (before the PID file is written), should_run
\* (before should_run_analysis), run (before run_analysis fetches its
\* list), analyze (before _analyze_session of the head of the list), parse
\* (status PROCESSING written), failed (status FAILED written), retry
\* (current item read back), cleanup (before the final cleanup_pid), exited,
\* killed. One step is one access to queue.json or to the PID file.

\* the session files of the project: the file of s1 cannot be analyzed
\* (every _analyze_session of it raises), s2 is analyzed
Sessions == <<"s1", "s2">>
Failing == {"s1"}

\* the processes os.kill(pid, 0) finds
Alive == {p \in Pids : runners[p].pc \notin {"idle", "exited", "killed"}}

\* the processes past the is_analysis_running check that have not exited
Executing ==
    {p \in Pids : runners[p].pc \notin {"idle", "check", "exited", "killed"}}

InitAnalysis ==
    /\ now = 0
    /\ steps = 0
    /\ lastOp = "none"
    /\ batch = <<>>
    /\ to_keep = <<>>
    /\ to_remove = <<>>
    /\ lastCall = NoCall
    /\ store = EmptyStore
    /\ injected = <<>>
    /\ removed = {}
    /\ origin = <<>>
    /\ procs = [p \in Procs |-> Idle]
    /\ torn = {}
    /\ query = NoQuery
    /\ cache = EmptyCache
    /\ hist = NoHist
    /\ pid_file = NoPidFile
    /\ runners = NoRunners
    /\ \E known \in 0..Len(Sessions), retry_count \in 0..RETRY_LIMIT :
            queue = [k \in 1..known |->
                        IF Sessions[k] \in Failing
                        THEN [AnalysisQueueItem(Sessions[k])
                                EXCEPT !.retry_count = retry_count]
                        ELSE AnalysisQueueItem(Sessions[k])] \o <<>>

\* the step of process p to position pc
Goto(p, pc) == [runners EXCEPT ![p].pc = pc]

\* sys.exit(code)
Exit(p, code) == [runners EXCEPT ![p].pc = "exited", ![p].exit_code = code]

\* the position after the item at the head of the list is done
NextItem(p) ==
    [runners EXCEPT ![p].pending = Tail(@),
                    ![p].pc = IF Tail(runners[p].pending) = <<>>
                              THEN "cleanup" ELSE "analyze"]

\* BackgroundRunner.spawn_analysis: subprocess.Popen of analyze-background
Spawn(p) ==
    /\ runners[p].pc = "idle"
    /\ runners' = Goto(p, "check")
    /\ lastOp' = "spawn_analysis"
    /\ UNCHANGED <<now, steps, engineVars, store, lifeVars,
                   procs, torn, hist, cache, pid_file, queue>>

\* analyze_background: if is_analysis_running(storage_root): sys.exit(2)
CheckRunning(p) ==
    /\ runners[p].pc = "check"
    /\ \E r \in {is_analysis_running(pid_file, Alive)} :
        /\ pid_file' = r.file
        /\ runners' = IF r.running THEN Exit(p, 2) ELSE Goto(p, "write")
    /\ lastOp' = "is_analysis_running"
    /\ UNCHANGED <<now, steps, engineVars, store, lifeVars,
                   procs, torn, hist, cache, queue>>

\* analyze_background: f.write(str(os.getpid()))
WritePid(p) ==
    /\ runners[p].pc = "write"
    /\ pid_file' = p
    /\ runners' = Goto(p, "should_run")
    /\ lastOp' = "write_pid"
    /\ UNCHANGED <<now, steps, engineVars, store, lifeVars,
                   procs, torn, hist, cache, queue>>

\* analyze_background: if not scheduler.should_run_analysis(): cleanup_pid,
\* sys.exit(0)
ShouldRun(p) ==
    /\ runners[p].pc = "should_run"
    /\ queue' = scan_new_sessions(queue, Sessions)
    /\ IF get_pending(queue', MAX_SESSIONS_PER_RUN) = <<>>
       THEN /\ pid_file' = cleanup_pid(pid_file)
            /\ runners' = Exit(p, 0)
       ELSE /\ pid_file' = pid_file
            /\ runners' = Goto(p, "run")
    /\ lastOp' = "should_run_analysis"
    /\ UNCHANGED <<now, steps, engineVars, store, lifeVars,
                   procs, torn, hist, cache>>

\* AnalysisScheduler.run_analysis: pending = self.get_pending_sessions()
RunAnalysis(p) ==
    /\ runners[p].pc = "run"
    /\ queue' = scan_new_sessions(queue, Sessions)
    /\ \E pending \in {get_pending(queue', MAX_SESSIONS_PER_RUN)} :
        runners' = [runners EXCEPT
                        ![p].pending = pending,
                        ![p].pc = IF pending = <<>> THEN "cleanup"
                                  ELSE "analyze"]
    /\ lastOp' = "run_analysis"
    /\ UNCHANGED <<now, steps, engineVars, store, lifeVars,
                   procs, torn, hist, cache, pid_file>>

\* _analyze_session: update_status(item.session_id, PROCESSING)
BeginSession(p) ==
    /\ runners[p].pc = "analyze"
    /\ queue' = update_status(queue, Head(runners[p].pending), "processing")
    /\ runners' = Goto(p, "parse")
    /\ lastOp' = "analyze_session"
    /\ UNCHANGED <<now, steps, engineVars, store, lifeVars,
                   procs, torn, hist, cache, pid_file>>

\* _analyze_session: the session is analyzed and its status is COMPLETED
CompleteSession(p) ==
    /\ runners[p].pc = "parse"
    /\ Head(runners[p].pending) \notin Failing
    /\ queue' = update_status(queue, Head(runners[p].pending), "completed")
    /\ runners' = NextItem(p)
    /\ lastOp' = "completed"
    /\ UNCHANGED <<now, steps, engineVars, store, lifeVars,
                   procs, torn, hist, cache, pid_file>>

\* _analyze_session raises; _handle_analysis_error: update_status(FAILED)
FailSession(p) ==
    /\ runners[p].pc = "parse"
    /\ Head(runners[p].pending) \in Failing
    /\ queue' = update_status(queue, Head(runners[p].pending), "failed")
    /\ runners' = Goto(p, "failed")
    /\ lastOp' = "failed"
    /\ UNCHANGED <<now, steps, engineVars, store, lifeVars,
                   procs, torn, hist, cache, pid_file>>

\* _handle_analysis_error: current_item = get_by_session_id(...) and the
\* comparison of its retry_count with retry_limit
ReadCurrentItem(p) ==
    /\ runners[p].pc = "failed"
    /\ runners' = [runners EXCEPT
                    ![p].retry = can_retry(get_by_session_id(
                                    queue, Head(runners[p].pending))),
                    ![p].pc = "retry"]
    /\ lastOp' = "get_by_session_id"
    /\ UNCHANGED <<now, steps, engineVars, store, lifeVars,
                   procs, torn, hist, cache, pid_file, queue>>

\* _handle_analysis_error: mark_for_retry if the comparison allowed it; the
\* exception is caught by run_analysis, which goes on with the next item
MarkForRetry(p) ==
    /\ runners[p].pc = "retry"
    /\ queue' = IF runners[p].retry
                THEN mark_for_retry(queue, Head(runners[p].pending))
                ELSE queue
    /\ runners' = NextItem(p)
    /\ lastOp' = "mark_for_retry"
    /\ UNCHANGED <<now, steps, engineVars, store, lifeVars,
                   procs, torn, hist, cache, pid_file>>

\* analyze_background: cleanup_pid(storage_root); sys.exit(0)
CleanupPid(p) ==
    /\ runners[p].pc = "cleanup"
    /\ pid_file' = cleanup_pid(pid_file)
    /\ runners' = Exit(p, 0)
    /\ lastOp' = "cleanup_pid"
    /\ UNCHANGED <<now, steps, engineVars, store, lifeVars,
                   procs, torn, hist, cache, queue>>

\* the process is killed (SIGKILL): nothing of it runs any more and the
\* PID file stays as it is
Kill(p) ==
    /\ p \in Alive
    /\ runners' = Goto(p, "killed")
    /\ lastOp' = "kill"
    /\ UNCHANGED <<now, steps, engineVars, store, lifeVars,
                   procs, torn, hist, cache, pid_file, queue>>

NextAnalysis ==
    \E p \in Pids :
        \/ Spawn(p)
        \/ CheckRunning(p)
        \/ WritePid(p)
        \/ ShouldRun(p)
        \/ RunAnalysis(p)
        \/ BeginSession(p)
        \/ CompleteSession(p)
        \/ FailSession(p)
        \/ ReadCurrentItem(p)
        \/ MarkForRetry(p)
        \/ CleanupPid(p)
        \/ Kill(p)

SpecAnalysis == InitAnalysis /\ [][NextAnalysis]_vars

----------------------------------------------------------------------------
\* Claims

\* C1: process_batch is idempotent: a second process_batch of the same batch
\* at the same `now`, with no trigger in between, leaves every confidence and
\* the retain/remove partition as the first call left them.
C1_ProcessBatchIdempotent ==
    [][(lastOp = "decay" /\ lastOp' = "decay" /\ now' = now)
        => (batch' = batch /\ to_keep' = to_keep /\ to_remove' = to_remove)]_vars

\* C2: decay does not accumulate: an atom not triggered between two
\* session-start decay passes at t1 < t2 holds, after the second pass, the
\* decay of its confidence at the last trigger over t2 - last_triggered_at.
C2_DecayDoesNotAccumulate ==
    \A m \in StoredOf(store) :
        LET o == origin[m.id]
        IN  (/\ o /= NoOrigin
             /\ o.tier = m.tier
             /\ o.prev_pass >= 0
             /\ o.prev_pass < o.last_pass)
            => m.confidence =
                calculate_decay([m EXCEPT !.confidence = o.confidence],
                                o.last_pass)

\* C3: an atom is removed only when its decayed confidence is below its tier's
\* floor AND it has been inactive for at least its tier's window, on every
\* removal path (the session-start decay pass, process_all).
C3_RemovedOnlyWhenLowAndInactive ==
    \A r \in removed :
        /\ r.decayed < MIN_CONFIDENCE_THRESHOLDS(r.tier)
        /\ r.inactive >= DELETE_THRESHOLDS(r.tier).inactive_days * DAY

\* C4: a promotion is atomic: at every point of TierManager.upgrade /
\* MemoryStore.update that moves an atom to the next tier, with no file open
\* for writing and nothing else running, the atom's id is in exactly one tier.
C4_PromotionAtomic ==
    \A p \in Procs :
        (/\ procs[p].op = "upgrade"
         /\ procs[p].pc \in {"remove_from_tier", "write_open", "write_close",
                             "save_load"}
         /\ torn = {}
         /\ \A q \in Procs \ {p} : procs[q].pc = "idle")
        => Cardinality(Holders(store, procs[p].id)) = 1

\* C5: load-mutate-save sequences are mutually exclusive: when the
\* invocations that ran (none of them killed or failed) have all returned,
\* the persisted store is what some serial execution of them leaves.
C5_NoLostUpdate ==
    (/\ \A p \in Procs : procs[p].pc = "idle"
     /\ hist.clean)
    => store \in SerialOutcomes(hist.base, hist.invs, now)

\* C6: a per-tier write is atomic with respect to a crash: after the only
\* running process is killed inside write_json, the tier file is readable and
\* holds the complete old or the complete new list.
C6_WriteAtomicOnCrash ==
    (/\ lastOp = "crash"
     /\ hist.crashed.file /= "none"
     /\ hist.crashed.alone)
    => /\ hist.crashed.file \notin torn
       /\ store[hist.crashed.file] \in {hist.crashed.old, hist.crashed.new}

\* C7: the tier of an atom never decreases: the tier index get_by_id gives
\* for an id is never below one it gave before, until the atom is deleted.
C7_TierNeverDecreases ==
    torn = {} =>
        \A i \in 1..MaxAtoms :
            get_by_id(store, i) /= None
            => TierIndex(get_by_id(store, i).tier) >= hist.seen[i]

\* C8: after any sequence of process_batch, trigger and strengthen_pattern
\* the confidence of every atom is in [0, 1].
C8_ConfidenceInUnitInterval ==
    \A i \in 1..Len(batch) :
        batch[i].confidence >= 0 /\ batch[i].confidence <= CONF_ONE

\* a trigger whose boost was cut at 1.0
C8_BoostCapped ==
    /\ lastOp \in {"trigger", "pattern"}
    /\ \E i \in 1..Len(batch) : batch[i].confidence = CONF_ONE

\* C9: retrieve_relevant returns at most `limit` items, and the decayed
\* confidence of every returned atom, evaluated at the retrieval from
\* last_triggered_at (under the tier-aware decay and under the retriever's
\* own), is at least min_confidence.
C9_LimitAndMinConfidence ==
    lastOp = "retrieve" =>
        /\ Len(injected) <= query.limit
        /\ \A i \in 1..Len(injected) :
            Max(calculate_decay(injected[i].memory, now),
                apply_time_decay(injected[i].memory, DEFAULT_HALF_LIFE_DAYS, now))
                >= query.min_confidence

\* C10: retrieve_relevant returns the best of ALL eligible stored atoms: no
\* stored atom that clears min_confidence (stored and decayed) and is not
\* returned has a strictly higher final score than a returned atom.
C10_BestOfAllEligible ==
    lastOp = "retrieve" =>
        \A m \in StoredOf(query.before) :
            (/\ m.confidence >= query.min_confidence
             /\ apply_time_decay(m, DEFAULT_HALF_LIFE_DAYS, now)
                    >= query.min_confidence
             /\ \A i \in 1..Len(injected) : injected[i].memory.id /= m.id)
            => \A i \in 1..Len(injected) :
                    calculate_relevance(m, query.context, now)
                        <= injected[i].relevance_score

\* C11: every atom retrieve_relevant returns is strengthened as
\* MemoryStrengthening.trigger(atom, pattern_matched=False, now) would: the
\* atom persisted afterwards is that trigger's result (debounce, diminishing
\* boost, trigger_count + 1, inline promotion).
C11_RetrievalStrengthens ==
    lastOp = "retrieve" =>
        \A i \in 1..Len(injected) :
            get_by_id(store, injected[i].memory.id)
                = trigger(injected[i].memory, FALSE, now)

\* C12: debounce: a trigger less than 1 hour after the atom's
\* last_triggered_at changes only last_triggered_at; confidence,
\* trigger_count and tier are as before the lastCall.
C12_DebounceFrame ==
    lastOp \in {"trigger", "pattern"} =>
        \A i \in lastCall.targets :
            now - lastCall.before[i].last_triggered_at < HOUR
            => batch[i] = [lastCall.before[i] EXCEPT !.last_triggered_at = now]

\* a debounced trigger that moved last_triggered_at
C12_Debounced ==
    /\ lastOp \in {"trigger", "pattern"}
    /\ \E i \in lastCall.targets :
        /\ now - lastCall.before[i].last_triggered_at < HOUR
        /\ lastCall.before[i].last_triggered_at < now
        /\ batch[i].last_triggered_at = now

\* C13: a trigger 1 hour or more after last_triggered_at sets confidence to
\* min(1.0, confidence + boost) with boost = min(0.15, (0.05 [+ 0.10 if
\* pattern_matched]) / (1 + 0.1 * trigger_count)), adds exactly 1 to
\* trigger_count and sets last_triggered_at to now.
C13_TriggerBoost ==
    lastOp \in {"trigger", "pattern"} =>
        \A i \in lastCall.targets :
            LET before == lastCall.before[i]
                base == IF lastCall.pattern_matched THEN 500 + 1000 ELSE 500
                boost == Min(1500, (base * 10) \div (10 + before.trigger_count))
            IN  now - before.last_triggered_at >= HOUR
                => /\ batch[i].confidence = Min(10000, before.confidence + boost)
                   /\ batch[i].trigger_count = before.trigger_count + 1
                   /\ batch[i].last_triggered_at = now

\* the scenario: confidence 0.5, trigger_count 0, no pattern gives confidence
\* 0.55, trigger_count 1; and a trigger whose boost was diminished
C13_Scenario ==
    /\ lastOp = "trigger"
    /\ ~lastCall.pattern_matched
    /\ \E i \in lastCall.targets :
        /\ now - lastCall.before[i].last_triggered_at >= HOUR
        /\ lastCall.before[i].confidence = 5000
        /\ lastCall.before[i].trigger_count = 0
        /\ batch[i].confidence = 5500
        /\ batch[i].trigger_count = 1

\* C14: trigger_count never decreases: the trigger_count persisted for an
\* atom id is at least 0 and never below one persisted for it before.
C14_TriggerCountMonotone ==
    torn = {} =>
        \A i \in 1..MaxAtoms :
            get_by_id(store, i) /= None
            => /\ get_by_id(store, i).trigger_count >= 0
               /\ get_by_id(store, i).trigger_count >= hist.counts[i]

\* C15: one decay model: for every atom TierManager.process_all or the
\* retrieval of a session start evaluated, the decayed confidence they use
\* (apply_time_decay) equals, within 0.01, the one of
\* MemoryDecay.calculate_decay at the same instant, tier factor included.
C15_OneDecayModel ==
    lastOp \in {"process_all", "session_start"} =>
        \A m \in StoredOf(store) :
            LET used == apply_time_decay(m, DEFAULT_HALF_LIFE_DAYS, now)
                engine == calculate_decay(m, now)
            IN  used - engine <= 100 /\ engine - used <= 100

\* reference times the decay of a held atom is evaluated at: the epoch (before
\* last_triggered_at once the atom was triggered), now, and later instants
ReferenceTimes ==
    {0} \cup {now + o : o \in {0, 1, 30 * DAY, 150 * DAY}}

\* C16: decay is non-increasing in the elapsed time: for reference times
\* t1 <= t2 the decayed confidence at t2 is at most the one at t1, and at no
\* reference time does it exceed the stored confidence.
C16_DecayMonotone ==
    \A i \in 1..Len(batch) :
        \E decayed \in {[t \in ReferenceTimes |-> calculate_decay(batch[i], t)]} :
            \A t1 \in ReferenceTimes :
                /\ decayed[t1] <= batch[i].confidence
                /\ \A t2 \in ReferenceTimes :
                       t1 <= t2 => decayed[t2] <= decayed[t1]

\* an atom triggered after the epoch whose decayed confidence is strictly
\* lower now than stored, and strictly lower still 30 days on
C16_Decays ==
    \E i \in 1..Len(batch) :
        /\ batch[i].last_triggered_at > 0
        /\ now > batch[i].last_triggered_at
        /\ calculate_decay(batch[i], now) < batch[i].confidence
        /\ calculate_decay(batch[i], now + 30 * DAY) < calculate_decay(batch[i], now)
        /\ calculate_decay(batch[i], 0) = batch[i].confidence

\* C17: a step of TierManager.process_all promotes an atom that does not meet
\* the deletion condition exactly when it meets its tier's promotion condition
\* at the start of the call: short_term leaves for a higher tier iff age >= 3
\* days, trigger_count >= 2 and decayed confidence >= 0.5; working becomes
\* long_term iff age >= 30 days, trigger_count >= 5 and decayed confidence
\* >= 0.7; long_term stays. The decayed confidence is the one of
\* MemoryDecay.calculate_decay.
C17_PromotionRule ==
    [][(lastOp' = "process_all" /\ steps' = steps + 1) =>
        \A i \in 1..MaxAtoms :
            LET m == get_by_id(store, i)
                after == get_by_id(store', i)
                decayed == calculate_decay(m, now)
                inactive == now - m.last_triggered_at
                age == now - m.created_at
                deletable ==
                    CASE m.tier = "short_term" ->
                            decayed < 3000 /\ inactive >= 3 * DAY
                      [] m.tier = "working" ->
                            decayed < 2000 /\ inactive >= 14 * DAY
                      [] m.tier = "long_term" ->
                            decayed < 1000 /\ inactive >= 90 * DAY
                due ==
                    CASE m.tier = "short_term" ->
                            age >= 3 * DAY /\ m.trigger_count >= 2
                                /\ decayed >= 5000
                      [] m.tier = "working" ->
                            age >= 30 * DAY /\ m.trigger_count >= 5
                                /\ decayed >= 7000
                      [] m.tier = "long_term" -> FALSE
                promoted == after /= None /\ after.tier /= m.tier
            IN  (m /= None /\ ~deletable) => (promoted <=> due)
      ]_vars

\* C18: in a step of TierManager.process_all deletion comes before promotion
\* and the returned log mirrors the store: an atom that meets check_delete at
\* the start is gone afterwards and has exactly one log entry, with to_tier
\* None; the entries of each atom, in log order, form a chain of tier changes
\* starting at its stored tier, each one persisted: the atom ends in the file
\* of the last to_tier (or in no file after a deletion); an atom without an
\* entry is stored unchanged, and no entry names an atom that was not stored.
C18_LogMirrorsStore ==
    [][(lastOp' = "process_all" /\ steps' = steps + 1) =>
        \E log \in {process_all(store, now).transitions} :
            /\ \A k \in 1..Len(log) : get_by_id(store, log[k].memory_id) /= None
            /\ \A i \in 1..MaxAtoms :
                LET m == get_by_id(store, i)
                    after == get_by_id(store', i)
                    IsMine(e) == e.memory_id = i
                    mine == SelectSeq(log, IsMine)
                    last == mine[Len(mine)]
                    files == {t \in MemoryTier :
                                \E k \in 1..Len(store'[t]) : store'[t][k].id = i}
                IN  m /= None =>
                      /\ check_delete(m, now) =>
                            /\ after = None
                            /\ Len(mine) = 1
                            /\ mine[1].to_tier = "none"
                      /\ \A k \in 1..Len(mine) :
                            /\ mine[k].from_tier =
                                (IF k = 1 THEN m.tier ELSE mine[k - 1].to_tier)
                            /\ mine[k].to_tier /= mine[k].from_tier
                      /\ IF mine = <<>> THEN after = m /\ files = {m.tier}
                         ELSE IF last.to_tier = "none"
                            THEN after = None /\ files = {}
                         ELSE /\ after = [m EXCEPT !.tier = last.to_tier]
                              /\ files = {last.to_tier}
      ]_vars

\* C19: process_all evaluates every stored atom whatever the size of the
\* store: after a step of process_all no atom that met check_delete at the
\* start is still stored, and no atom that met check_upgrade is still in its
\* old tier.
C19_EveryAtomEvaluated ==
    [][(lastOp' = "process_all" /\ steps' = steps + 1) =>
        \A m \in StoredOf(store) :
            \E after \in {get_by_id(store', m.id)} :
                /\ check_delete(m, now) => after = None
                /\ check_upgrade(m, now) /= "none"
                        => (after = None \/ after.tier /= m.tier)
      ]_vars

\* C20: the decay pass of a session start reaches every stored atom whatever
\* the size of the store: after SessionStartHook.handle with injection and
\* decay enabled every atom stored before is removed or has its confidence
\* replaced by calculate_decay of the stored one.
C20_DecayReachesAll ==
    [][SessionStart(TRUE, TRUE, HOOK_MAX_MEMORIES) =>
        \A m \in StoredOf(store) :
            \E after \in {get_by_id(store', m.id)} :
                after = None \/ after.confidence = calculate_decay(m, now)
      ]_vars

\* C21: after a trigger that is not debounced the atom's tier follows the
\* inline promotion check on the updated values: short_term becomes working iff
\* confidence >= 0.6 and trigger_count >= 3 (and never long_term), working
\* becomes long_term iff confidence >= 0.8 and trigger_count >= 7, long_term
\* stays.
C21_InlinePromotion ==
    lastOp \in {"trigger", "pattern"} =>
        \A i \in lastCall.targets :
            now - lastCall.before[i].last_triggered_at >= HOUR =>
                batch[i].tier =
                    CASE lastCall.before[i].tier = "short_term" ->
                            IF batch[i].confidence >= 6000
                                    /\ batch[i].trigger_count >= 3
                            THEN "working" ELSE "short_term"
                      [] lastCall.before[i].tier = "working" ->
                            IF batch[i].confidence >= 8000
                                    /\ batch[i].trigger_count >= 7
                            THEN "long_term" ELSE "working"
                      [] lastCall.before[i].tier = "long_term" -> "long_term"

\* a short_term atom whose updated values also meet the working -> long_term
\* thresholds was moved to working, one step only
C21_OneStepOnly ==
    /\ lastOp = "trigger"
    /\ \E i \in lastCall.targets :
        /\ now - lastCall.before[i].last_triggered_at >= HOUR
        /\ lastCall.before[i].tier = "short_term"
        /\ batch[i].confidence >= 8000
        /\ batch[i].trigger_count >= 7
        /\ batch[i].tier = "working"

\* C22: save is an upsert by id over the whole store: after any sequence of
\* save, save_batch, update, trigger and delete calls each id is held by at
\* most one tier file, and at most once in it.
C22_IdStoredOnce ==
    \A i \in 1..MaxAtoms :
        Cardinality({<<t, k>> \in MemoryTier \X (1..(2 * MaxCalls + MaxAtoms)) :
                        k <= Len(store[t]) /\ store[t][k].id = i}) <= 1

\* C23: one malformed persisted record does not abort get_all: the call
\* raises nothing and returns what it returns for the store without the
\* malformed records.
C23_MalformedRecordIsolated ==
    lastOp = "get_all" =>
        /\ lastCall.result.error = "none"
        /\ lastCall.result.memories =
                get_all(WellFormed(lastCall.before),
                        [QueryOptions EXCEPT !.tier = lastCall.result.tier])

\* the records of every tier file of a store
AllRecords(st) == st["short_term"] \o st["working"] \o st["long_term"]

C25_OutputBounded ==
    lastOp = "format" =>
        JoinedLength(lastCall.result) <= lastCall.max_length

\* C26: format_for_injection writes the sections in the order identity,
\* value, thinking, preference, communication, and every section header is
\* followed by an entry of that section.
C26_SectionsOrderedAndFilled ==
    lastOp = "format" =>
        LET lines == lastCall.result
            Rank(ty) == CHOOSE s \in 1..Len(SectionOrder) : SectionOrder[s] = ty
        IN  \A k \in 1..Len(lines) :
                lines[k].kind = "section" =>
                    /\ k < Len(lines)
                    /\ lines[k + 1].kind = "entry"
                    /\ lines[k + 1].type = lines[k].type
                    /\ \A j \in 1..(k - 1) :
                            lines[j].kind = "section" =>
                                Rank(lines[j].type) < Rank(lines[k].type)

\* the Jaccard index of two tag sets is at least the threshold (hundredths);
\* 1 for two empty sets
JaccardAtLeast(a, b, threshold) ==
    IF a \cup b = {} THEN 100 >= threshold
    ELSE Cardinality(a \cap b) * 100 >= threshold * Cardinality(a \cup b)

SeqRange(s) == {s[k] : k \in 1..Len(s)}

\* C27 as stated: find_pattern_matches returns exactly the candidates other
\* than the atom with the atom's type and a tag-set Jaccard index of at
\* least the threshold.
C27_ExactlyJaccardMatches ==
    lastOp = "find_pattern_matches" =>
        \A other \in SeqRange(batch) :
            other \in SeqRange(lastCall.result)
                <=> /\ other.id /= lastCall.before.id
                    /\ other.type = lastCall.before.type
                    /\ JaccardAtLeast(lastCall.before.tags, other.tags,
                                      lastCall.similarity_threshold)

\* C27: find_pattern_matches returns exactly the candidates other than the
\* atom with the atom's type, at least one tag on both sides and a tag-set
\* Jaccard index of at least the threshold, and nothing else.
C27_MatchesWithTags ==
    lastOp = "find_pattern_matches" =>
        /\ SeqRange(lastCall.result) \subseteq SeqRange(batch)
        /\ \A other \in SeqRange(batch) :
            other \in SeqRange(lastCall.result)
                <=> /\ other.id /= lastCall.before.id
                    /\ other.type = lastCall.before.type
                    /\ lastCall.before.tags /= {}
                    /\ other.tags /= {}
                    /\ JaccardAtLeast(lastCall.before.tags, other.tags,
                                      lastCall.similarity_threshold)

\* the scenario: {typescript, language} against {typescript, style} at 0.7
\* is no match, while a candidate with the atom's own tags is one
C27_Scenario ==
    /\ lastOp = "find_pattern_matches"
    /\ lastCall.similarity_threshold = 70
    /\ lastCall.before.tags = {"typescript", "language"}
    /\ Len(batch) = 2
    /\ batch[1].id = 2 /\ batch[1].type = "identity"
    /\ batch[1].tags = {"typescript", "style"}
    /\ batch[2].id = 2 /\ batch[2].type = "identity"
    /\ batch[2].tags = {"typescript", "language"}
    /\ lastCall.result = <<batch[2]>>

\* the id is in no tier file of the store
UnknownId(st, i) == \A t \in MemoryTier : i \notin SeqIds(st[t])

\* C28: on an id that is in no tier collection, update fails with
\* MEMORY_NOT_FOUND, trigger returns None and delete returns False, and
\* each leaves every tier collection as it was.
C28_UnknownIdRejected ==
    lastOp \in {"update", "trigger", "delete"} =>
        \A i \in lastCall.targets :
            UnknownId(lastCall.before, i) =>
                /\ store = lastCall.before
                /\ lastOp = "update" => lastCall.result = "MEMORY_NOT_FOUND"
                /\ lastOp = "trigger" => lastCall.result = None
                /\ lastOp = "delete" => lastCall.result = FALSE

\* an update of an unknown id on a store that holds other atoms
C28_UpdateOfUnknownId ==
    /\ lastOp = "update"
    /\ \A i \in lastCall.targets : UnknownId(lastCall.before, i)
    /\ AllRecords(lastCall.before) /= <<>>
    /\ lastCall.result = "MEMORY_NOT_FOUND"
    /\ store = lastCall.before

\* C30: one SessionStartHook.handle adds at most 1 to the persisted
\* trigger_count of every atom it injects and leaves the trigger_count of
\* every other atom as it was.
C30_StrengthenedOnce ==
    [][lastOp' = "session_start" =>
        \A m \in StoredOf(store) :
            \E after \in {get_by_id(store', m.id)} :
                after /= None =>
                    IF m.id \in SeqRange(ResultIds(injected'))
                    THEN after.trigger_count <= m.trigger_count + 1
                    ELSE after.trigger_count = m.trigger_count
      ]_vars

\* C29 as stated: no exception of handle reaches the caller, and an
\* exception raised in decay, archiving, retrieval, strengthening or
\* formatting gives a HookOutput with the error field set.
C29_EveryFailureReported ==
    lastOp = "handle" =>
        /\ ~lastCall.propagated
        /\ lastCall.raised /= "none" => lastCall.output.error /= "none"

\* C29: no exception of handle reaches the caller; an exception raised in
\* decay, retrieval, strengthening or formatting gives a HookOutput with the
\* error field set and no additional_context; an exception raised in
\* archiving is dropped and the HookOutput has no error.
C29_NeverPropagates ==
    lastOp = "handle" =>
        /\ ~lastCall.propagated
        /\ lastCall.raised \in HandleStages \ {"archiving"} =>
                /\ lastCall.output.error /= "none"
                /\ lastCall.output.additional_context = <<>>
        /\ lastCall.raised = "archiving" => lastCall.output.error = "none"

\* a retrieval that fails after the decay pass rewrote the store
C29_RetrievalFailed ==
    /\ lastOp = "handle"
    /\ lastCall.raised = "retrieval"
    /\ store /= lastCall.before
    /\ lastCall.output.error = "retrieval"
    /\ ~lastCall.propagated

\* a sequence of indices in strictly increasing order
Increasing(s) == \A j, k \in 1..Len(s) : j < k => s[j] < s[k]

\* C31: process_batch changes only the confidence of an atom and only
\* downward; to_keep and to_remove are disjoint, hold every input atom once
\* in input order, and an atom is in to_remove iff its decayed confidence is
\* below the floor of its tier.
C31_DecayFrame ==
    [][DecayBatch =>
        /\ Len(batch') = Len(batch)
        /\ \A i \in 1..Len(batch) :
            /\ batch'[i] = [batch[i] EXCEPT !.confidence = batch'[i].confidence]
            /\ batch'[i].confidence <= batch[i].confidence
            /\ i \in SeqRange(to_remove')
                <=> calculate_decay(batch[i], now)
                        < MIN_CONFIDENCE_THRESHOLDS(batch[i].tier)
        /\ SeqRange(to_keep') \cap SeqRange(to_remove') = {}
        /\ SeqRange(to_keep') \cup SeqRange(to_remove') = 1..Len(batch)
        /\ Increasing(to_keep') /\ Increasing(to_remove')
      ]_vars

\* a pass that lowered a confidence, retained one atom and removed another
C31_KeptAndRemoved ==
    /\ lastOp = "decay"
    /\ to_keep /= <<>>
    /\ to_remove /= <<>>
    /\ \E i \in 1..Len(batch) : batch[i].confidence < 5000

\* C32: after delete(id) the id is in no tier collection, delete returned
\* True iff the id was in one before, and every other atom is as it was.
C32_DeleteRemovesId ==
    lastOp = "delete" =>
        \A i \in lastCall.targets :
            /\ UnknownId(store, i)
            /\ lastCall.result = ~UnknownId(lastCall.before, i)
            /\ \A t \in MemoryTier :
                    LET Others(m) == m.id /= i
                    IN  SelectSeq(store[t], Others)
                            = SelectSeq(lastCall.before[t], Others)

\* C33: in the log of one process_all call no atom id has more than one
\* promotion entry.
C33_OnePromotionPerCall ==
    [][ProcessAll =>
        \E log \in {process_all(store, now).transitions} :
            \A j, k \in 1..Len(log) :
                (/\ log[j].memory_id = log[k].memory_id
                 /\ log[j].to_tier /= "none"
                 /\ log[k].to_tier /= "none") => j = k
      ]_vars

\* C34: a trigger moves an atom to working only at an age of at least
\* 3 days and to long_term only at an age of at least 30 days, the min_days
\* of TierManager.
C34_InlinePromotionRespectsAge ==
    lastOp \in {"trigger", "pattern"} =>
        \A i \in lastCall.targets :
            batch[i].tier /= lastCall.before[i].tier =>
                WholeDays(now - batch[i].created_at)
                    >= UPGRADE_THRESHOLDS(lastCall.before[i].tier).min_days

\* C35: while every trigger call on an atom comes less than 1 hour after the
\* previous call, only its last_triggered_at changes: trigger_count,
\* confidence and tier are those before the first call, however long the
\* sequence lasts.
C35_SlidingWindow ==
    lastOp \in {"trigger", "advance"} =>
        \A i \in 1..Len(batch) :
            query.chained[i] =>
                batch[i] = [query.first[i] EXCEPT
                                !.last_triggered_at = batch[i].last_triggered_at]

\* three calls half an hour apart: the last one comes more than 1 hour after
\* the atom's last_triggered_at before the first call
C35_LongChain ==
    /\ lastOp = "trigger"
    /\ \E i \in 1..Len(batch) :
        /\ query.chained[i]
        /\ query.calls[i] >= 2
        /\ now - query.first[i].last_triggered_at >= HOUR
        /\ batch[i].last_triggered_at = now
        /\ batch[i].trigger_count = query.first[i].trigger_count

\* C36: with injection_enabled false, handle returns an empty context and
\* leaves the memory store as it was: no atom is decayed, deleted or
\* triggered.
C36_DisabledInjectionIsInert ==
    (lastOp = "handle" /\ ~lastCall.injection_enabled) =>
        /\ lastCall.output = HookOutput(<<>>, "none")
        /\ injected = <<>>
        /\ store = lastCall.before

\* a disabled invocation on a store that an enabled one would have changed
C36_WouldHaveChanged ==
    /\ lastOp = "handle"
    /\ ~lastCall.injection_enabled
    /\ store = lastCall.before
    /\ handle_enabled(store, now, TRUE, HOOK_MAX_MEMORIES, "none").store /= store

\* C37: the indices of the cache agree with its data: an id is in
\* memory_by_type[t], memory_by_tier[r], memory_by_tag[g] iff the atom cached
\* under the id has type t, tier r, tag g, and memory_by_confidence lists
\* exactly the cached ids, in descending confidence.
C37_IndicesConsistent ==
    /\ \A t \in DOMAIN cache.memory_by_type :
            cache.memory_by_type[t]
                = {id \in CachedIds(cache) : Cached(cache, id).type = t}
    /\ \A r \in DOMAIN cache.memory_by_tier :
            cache.memory_by_tier[r]
                = {id \in CachedIds(cache) : Cached(cache, id).tier = r}
    /\ \A g \in DOMAIN cache.memory_by_tag :
            cache.memory_by_tag[g]
                = {id \in CachedIds(cache) : g \in Cached(cache, id).tags}
    /\ SeqRange(cache.memory_by_confidence) = CachedIds(cache)
    /\ Len(cache.memory_by_confidence) = Cardinality(CachedIds(cache))
    /\ \A j, k \in 1..Len(cache.memory_by_confidence) :
            j < k => Cached(cache, cache.memory_by_confidence[j]).confidence
                        >= Cached(cache, cache.memory_by_confidence[k]).confidence

\* C38: the retries of an analysis are bounded: a queue item is reset to
\* PENDING at most retry_limit times, that is, its retry_count (incremented
\* by every reset) never exceeds retry_limit.
C38_RetriesBounded ==
    \A k \in 1..Len(queue) : queue[k].retry_count <= RETRY_LIMIT

\* C39: at most one background analysis runs per storage root: at most one
\* process is past the is_analysis_running check at a time, and while a
\* process is past it and has written the PID file, the file exists.
C39_OneAnalysisPerRoot ==
    /\ Cardinality(Executing) <= 1
    /\ \A p \in Executing : runners[p].pc /= "write" => pid_file /= NoPidFile

====
